---- MODULE Spec2Model ----
(***************************************************************************)
(* Task event log, resumable streaming, consumer groups and the task       *)
(* lifecycle of a2a_app (events.py, handlers.py, services.py, api.py).     *)
(*                                                                         *)
(* The Redis server and the Django ORM are external to the repository.     *)
(* Their commands are modelled by what the server does with the arguments  *)
(* the code passes:                                                        *)
(*   XADD  key * MAXLEN ~ n   appends under a fresh, larger ID and may     *)
(*                            evict oldest entries, never below n;         *)
(*   XRANGE key (id + COUNT c accepts the exclusive "(" prefix;            *)
(*   XREAD  ... STREAMS key id  returns the entries with an ID greater     *)
(*                            than id; it parses id strictly, so an id     *)
(*                            written with the "(" prefix is rejected      *)
(*                            with an error reply (redis ResponseError,    *)
(*                            a subclass of RedisError);                   *)
(*   XREADGROUP ... >         returns entries never delivered to the group *)
(*                            and records them as pending for the consumer.*)
(***************************************************************************)
EXTENDS Integers, Sequences, FiniteSets, TLC

(***************************************************************************)
(* Bounds of the model.                                                    *)
(***************************************************************************)
\* publish calls per task
MaxAppends == 4
\* largest millisecond part of a stream ID
MaxMs == 1
\* entries an approximate trim may leave above maxlen
TrimSlack == 1
\* injected transport failures
MaxFailures == 1
\* tasks/cancel requests per task
MaxCancels == 2
\* publish calls per task when two tasks are published to
MaxTaskAppends == 2
\* largest historyLength of a tasks/get
MaxHistoryLength == 4

(***************************************************************************)
(* Program constants, scaled down from the source values.                  *)
(***************************************************************************)
\* maxlen=1000 of xadd
MAXLEN == 2
\* count=100 of xread
XREAD_COUNT == 2
\* limit: int = 1000 of get_events_since / get_all_events (equal to maxlen)
DEFAULT_LIMIT == 2
\* count=10 of xreadgroup
XREADGROUP_COUNT == 2
\* count: int = 10 of get_pending_events
PENDING_COUNT == 2

None == "None"

TaskIds == {"t1", "t2"}
\* the tasks the log specification publishes to
LogTasks == {"t1"}
Subs == {"s1", "s2"}
Insts == {"i1", "i2"}

TERMINAL_STATES == {"completed", "failed", "canceled", "rejected"}

(***************************************************************************)
(* Stream IDs: <<ms, seq>>, ordered lexicographically; "0" is <<0, 0>>.    *)
(***************************************************************************)
ZeroId == <<0, 0>>

\* no ID given (last_event_id=None; the "-" start of a range)
NoId == <<-1, -1>>

IdLess(a, b) == a[1] < b[1] \/ (a[1] = b[1] /\ a[2] < b[2])

\* the ID XADD * assigns after `last` at server time ms: the time with
\* sequence 0 when the time has advanced, else the next sequence number
NextId(last, ms) ==
    IF ms > last[1] THEN <<ms, 0>> ELSE <<last[1], last[2] + 1>>

(***************************************************************************)
(* Events and their serialisation.                                         *)
(***************************************************************************)
MkEvent(type, taskId, message, artifact) ==
    [type |-> type, taskId |-> taskId, message |-> message, artifact |-> artifact]

\* json.dumps(event, default=str) of a JSON-native event, and json.loads
JsonDumps(event) == [json |-> event]
JsonLoads(data) == data.json

\* event_data["_id"] = msg_id.decode()
WithId(entry) == ("_id" :> entry.id) @@ JsonLoads(entry.fields.data)

\* fields[b"data"] exists and json.loads accepts it
Decodes(entry) ==
    /\ "data" \in DOMAIN entry.fields
    /\ "json" \in DOMAIN entry.fields.data

\* the entries of a batch that stand before its first malformed entry
RECURSIVE DecodedPrefix(_)
DecodedPrefix(entries) ==
    IF entries = <<>> \/ ~Decodes(Head(entries)) THEN <<>>
    ELSE <<Head(entries)>> \o DecodedPrefix(Tail(entries))

AllDecode(entries) == \A i \in 1..Len(entries) : Decodes(entries[i])

RECURSIVE MapWithId(_)
MapWithId(entries) ==
    IF entries = <<>> THEN <<>>
    ELSE <<WithId(Head(entries))>> \o MapWithId(Tail(entries))

(***************************************************************************)
(* Sequence helpers.                                                       *)
(***************************************************************************)
Min(a, b) == IF a < b THEN a ELSE b

Take(s, n) == SubSeq(s, 1, Min(n, Len(s)))

Drop(s, n) == SubSeq(s, n + 1, Len(s))

RECURSIVE After(_, _)
\* the entries of a log with an ID greater than id
After(log, id) ==
    IF log = <<>> THEN <<>>
    ELSE IF IdLess(id, Head(log).id) THEN log
    ELSE After(Tail(log), id)

Ids(entries) == [i \in 1..Len(entries) |-> entries[i].id]

VARIABLES
    \* Redis: the retained entries of each task's stream, its last ID and the
    \* server's clock (ms)
    stream, lastId, clock,
    \* history: every entry ever appended to each task's stream
    appended,
    \* the outcome of the last call of publish
    pubResult,
    \* transport failures injected so far
    failures,
    \* the last bulk read (get_events_since / get_all_events) and its result
    lastRange,
    \* subscribe(): position of each sequence, its task, its subscriber
    \* instance, its cursor, the rest of the batch read, what it yielded,
    \* whether one of its reads failed, and the resumption token given
    subPc, subTask, subInst, startId, subBatch, yielded, subFailed, subLast,
    \* RedisEventSubscriber._running of each instance
    running,
    \* stream_task.generate, the caller of a subscribe(): its position and the
    \* SSE events it has emitted
    strPc, strOut,
    \* Redis: the consumer group of each task's stream (whether it exists, its
    \* last delivered ID, its pending entries)
    group,
    \* consume(): position of each consumer, the rest of the batch read, the
    \* events yielded to it, RedisConsumerGroup._running of its instance
    conPc, conBatch, conYielded, conRunning,
    \* the last answer of get_pending_events, with the pending entries the
    \* group held when it was served
    lastPending,
    \* the a2a_tasks rows
    tasks,
    \* tasks/send: position of the run of each task, which module serves it,
    \* the event being processed, the list read by append_message /
    \* add_artifact, and the types of the events processed so far
    sendPc, sendVia, curEvent, listRead, processed,
    \* tasks/cancel: position of the request, the number of requests made; the
    \* last JSON-RPC response of tasks/send and of tasks/cancel
    canPc, cancels, rpcResponse,
    \* the a2a_conversations rows; the method and the contextId of the
    \* tasks/send request of each task; the history returned by the last
    \* tasks/get of each task
    conversations, sendMethod, sendContext, getResult

logVars == <<stream, lastId, clock, appended, pubResult>>
strVars == <<strPc, strOut>>
subVars == <<subPc, subTask, subInst, startId, subBatch, yielded, subFailed,
             subLast, running, strVars>>
grpVars == <<group, conPc, conBatch, conYielded, conRunning, lastPending>>
reqVars == <<conversations, sendMethod, sendContext, getResult>>
taskVars == <<tasks, sendPc, sendVia, curEvent, listRead, processed, canPc,
              cancels, rpcResponse, reqVars>>
vars == <<logVars, failures, lastRange, subVars, grpVars, taskVars>>

(***************************************************************************)
(* Redis commands.                                                         *)
(***************************************************************************)
\* mutant: the trim may cut one entry below maxlen
TrimChoicesBelow(n) ==
    IF n < MAXLEN THEN {0}
    ELSE {k \in 0..n : n - k >= MAXLEN - 1 /\ n - k <= MAXLEN + TrimSlack}

\* numbers of oldest entries XADD MAXLEN ~ maxlen may evict from n entries
TrimChoices(n) ==
    IF n <= MAXLEN THEN {0}
    ELSE {k \in 0..n : n - k >= MAXLEN /\ n - k <= MAXLEN + TrimSlack}

\* XADD key MAXLEN ~ maxlen * data <data>, evicting k oldest entries
XAdd(log, id, data, k) == Drop(Append(log, [id |-> id, fields |-> [data |-> data]]), k)

\* mutant: the range starts at the given ID, which is included
XRangeInclusive(log, after, count) ==
    Take(IF after = NoId THEN log
         ELSE SelectSeq(log, LAMBDA e : e.id = after) \o After(log, after), count)

\* XRANGE key min + COUNT count; min is "-" (NoId) or "(" id
XRange(log, after, count) ==
    Take(IF after = NoId THEN log ELSE After(log, after), count)

\* the cursors subscribe() builds: "0", or "(" followed by an ID
PlainCursor(id) == [excl |-> FALSE, id |-> id]
ExclCursor(id) == [excl |-> TRUE, id |-> id]

\* mutant: the entries of an answer come newest first
XReadNewestFirst(log, start, count) ==
    IF start.excl
    THEN [error |-> "ResponseError", entries |-> <<>>]
    ELSE LET es == Take(After(log, start.id), count) IN
         [error |-> None, entries |-> [i \in 1..Len(es) |-> es[Len(es) + 1 - i]]]

\* XREAD COUNT count BLOCK 1000 STREAMS key start
XRead(log, start, count) ==
    IF start.excl
    THEN [error |-> "ResponseError", entries |-> <<>>]
    ELSE [error |-> None, entries |-> Take(After(log, start.id), count)]

\* the effect of one xadd(stream_key, {"data": data}, maxlen, approximate)
XAddStep(t, data) ==
    LET id == NextId(lastId[t], clock) IN
    \E k \in TrimChoices(Len(stream[t]) + 1) :
        /\ stream' = [stream EXCEPT ![t] = XAdd(@, id, data, k)]
        /\ lastId' = [lastId EXCEPT ![t] = id]
        /\ appended' = [appended EXCEPT
                          ![t] = Append(@, [id |-> id, fields |-> [data |-> data]])]
        /\ UNCHANGED clock

\* the server's clock advances
Tick ==
    /\ clock < MaxMs
    /\ clock' = clock + 1
    /\ UNCHANGED <<stream, lastId, appended, pubResult, failures, lastRange>>
    /\ UNCHANGED <<subVars, grpVars, taskVars>>

(***************************************************************************)
(* RedisEventPublisher.publish                                             *)
(***************************************************************************)
NoPublish == [task |-> None, raised |-> FALSE, id |-> NoId]

\* return event_id.decode() if isinstance(event_id, bytes) else event_id
PublishReturns(t, id) == [task |-> t, raised |-> FALSE, id |-> id]

\* mutant: except RedisError: log, and return nothing
PublishSwallowsError(t) == [task |-> t, raised |-> FALSE, id |-> NoId]

\* except RedisError: log, raise
PublishOnError(t) == [task |-> t, raised |-> TRUE, id |-> NoId]

\* mutant: the stream key is built without the task ID, every publish goes
\* to one stream
PublishToOneStream(t, event) ==
    /\ Len(appended[t]) < MaxAppends
    /\ XAddStep("t1", JsonDumps(event))
    /\ pubResult' = PublishReturns(t, NextId(lastId["t1"], clock))
    /\ UNCHANGED <<failures, lastRange>>
    /\ UNCHANGED <<subVars, grpVars, taskVars>>

Publish(t, event) ==
    /\ Len(appended[t]) < MaxAppends
    /\ XAddStep(t, JsonDumps(event))
    /\ pubResult' = PublishReturns(t, NextId(lastId[t], clock))
    /\ UNCHANGED <<failures, lastRange>>
    /\ UNCHANGED <<subVars, grpVars, taskVars>>

\* xadd raises RedisError before the server ran the command: publish
\* re-raises, the stream is untouched
PublishFails(t) ==
    /\ Len(appended[t]) < MaxAppends
    /\ failures < MaxFailures
    /\ failures' = failures + 1
    /\ pubResult' = PublishOnError(t)
    /\ UNCHANGED <<stream, lastId, clock, appended, lastRange>>
    /\ UNCHANGED <<subVars, grpVars, taskVars>>

\* xadd raises RedisError after the server ran the command (the reply is
\* lost): publish re-raises, the entry is in the stream
PublishReplyLost(t, event) ==
    /\ Len(appended[t]) < MaxAppends
    /\ failures < MaxFailures
    /\ failures' = failures + 1
    /\ XAddStep(t, JsonDumps(event))
    /\ pubResult' = PublishOnError(t)
    /\ UNCHANGED <<lastRange>>
    /\ UNCHANGED <<subVars, grpVars, taskVars>>

\* what json.loads rejects
NotJson == [raw |-> "not json"]

\* the fields of an entry without a data field, or whose data is not JSON
MalformedFields == {[data |-> NotJson], [note |-> NotJson]}

\* an entry written to the task's stream by another client of the store
ForeignXAdd(t) ==
    /\ Len(appended[t]) < MaxAppends
    /\ \A i \in 1..Len(appended[t]) : Decodes(appended[t][i])
    /\ \E fields \in MalformedFields :
          LET id == NextId(lastId[t], clock) IN
          /\ stream' = [stream EXCEPT ![t] = Append(@, [id |-> id, fields |-> fields])]
          /\ lastId' = [lastId EXCEPT ![t] = id]
          /\ appended' = [appended EXCEPT
                            ![t] = Append(@, [id |-> id, fields |-> fields])]
    /\ UNCHANGED <<clock, pubResult, failures, lastRange>>
    /\ UNCHANGED <<subVars, grpVars, taskVars>>

(***************************************************************************)
(* RedisEventSubscriber.get_events_since / get_all_events                  *)
(***************************************************************************)
get_events_since(log, after_event_id, limit) ==
    MapWithId(XRange(log, after_event_id, limit))

\* mutant: the range is read newest first
get_all_events_reversed(log, limit) ==
    LET r == MapWithId(XRange(log, NoId, limit))
    IN  [i \in 1..Len(r) |-> r[Len(r) + 1 - i]]

get_all_events(log, limit) == MapWithId(XRange(log, NoId, limit))

Limits == {DEFAULT_LIMIT, 2 * DEFAULT_LIMIT}

RangeRecord(op, t, after, limit, result) ==
    [op |-> op, task |-> t, after |-> after, limit |-> limit, result |-> result,
     error |-> None, failed |-> FALSE,
     \* history: what had been appended and evicted when the read was served
     n |-> Len(appended[t]), evicted |-> Len(appended[t]) - Len(stream[t])]

GetAllEvents(t) ==
    /\ \E limit \in Limits :
          /\ AllDecode(XRange(stream[t], NoId, limit))
          /\ lastRange' = RangeRecord("all", t, NoId, limit,
                                      get_all_events(stream[t], limit))
    /\ UNCHANGED failures
    /\ UNCHANGED <<logVars, subVars, grpVars, taskVars>>

GetEventsSince(t) ==
    /\ \E limit \in Limits :
       \E i \in 1..Len(appended[t]) :
          /\ AllDecode(XRange(stream[t], appended[t][i].id, limit))
          /\ lastRange' = RangeRecord("since", t, appended[t][i].id, limit,
                                      get_events_since(stream[t], appended[t][i].id, limit))
    /\ UNCHANGED failures
    /\ UNCHANGED <<logVars, subVars, grpVars, taskVars>>

\* xrange raises RedisError: except RedisError: log, raise
RangeReadFails(t) ==
    /\ failures < MaxFailures
    /\ failures' = failures + 1
    /\ \E limit \in Limits :
       \E after \in {NoId} \cup {appended[t][i].id : i \in 1..Len(appended[t])} :
          lastRange' = [RangeRecord(IF after = NoId THEN "all" ELSE "since",
                                    t, after, limit, <<>>)
                          EXCEPT !.error = "RedisError", !.failed = TRUE]
    /\ UNCHANGED <<logVars, subVars, grpVars, taskVars>>

\* json.loads(fields[b"data"].decode()) raises KeyError or JSONDecodeError on
\* an entry of the range: the events before it were yielded, the error is not
\* a RedisError and leaves the generator
RangeDecodeFails(t) ==
    /\ \E limit \in Limits :
       \E after \in {NoId} \cup {appended[t][i].id : i \in 1..Len(appended[t])} :
          LET entries == XRange(stream[t], after, limit) IN
          /\ ~AllDecode(entries)
          /\ lastRange' = [RangeRecord(IF after = NoId THEN "all" ELSE "since",
                                       t, after, limit,
                                       MapWithId(DecodedPrefix(entries)))
                             EXCEPT !.error = "DecodeError"]
    /\ UNCHANGED failures
    /\ UNCHANGED <<logVars, subVars, grpVars, taskVars>>

(***************************************************************************)
(* RedisEventSubscriber.subscribe / stop                                   *)
(***************************************************************************)
\* start_id = f"({last_event_id}" if last_event_id else "0"
StartCursor(last_event_id) ==
    IF last_event_id # NoId THEN ExclCursor(last_event_id) ELSE PlainCursor(ZeroId)

\* start_id = f"({msg_id.decode()}" after the yield of msg_id
CursorAfterYield(msg_id) == ExclCursor(msg_id)

\* mutant: a failed read restarts from the beginning of the log
CursorResetOnError(start_id) == PlainCursor(ZeroId)

\* except RedisError: log, sleep(1); start_id is not assigned
CursorAfterError(start_id) == start_id

\* the first __anext__ of subscribe(task_id, last_event_id) on instance i
SubscribeStart(s, t, i) ==
    /\ subPc[s] = "new"
    /\ \E last \in {NoId} \cup {appended[t][n].id : n \in 1..Len(appended[t])} :
          /\ startId' = [startId EXCEPT ![s] = StartCursor(last)]
          /\ subLast' = [subLast EXCEPT ![s] = last]
    /\ subPc' = [subPc EXCEPT ![s] = "loop"]
    /\ subTask' = [subTask EXCEPT ![s] = t]
    /\ subInst' = [subInst EXCEPT ![s] = i]
    /\ running' = [running EXCEPT ![i] = TRUE]
    /\ UNCHANGED <<subBatch, yielded, subFailed, failures, lastRange>>
    /\ UNCHANGED <<logVars, grpVars, taskVars>>

\* while self._running: messages = await xread(...); the answer holds entries
\* and the first of them is yielded
SubReadEntries(s) ==
    /\ subPc[s] = "loop"
    /\ running[subInst[s]]
    /\ LET r == XRead(stream[subTask[s]], startId[s], XREAD_COUNT) IN
          /\ r.error = None
          /\ r.entries # <<>>
          /\ Decodes(Head(r.entries))
          /\ subBatch' = [subBatch EXCEPT ![s] = r.entries]
          /\ yielded' = [yielded EXCEPT ![s] = Append(@, WithId(Head(r.entries)))]
    /\ subPc' = [subPc EXCEPT ![s] = "yield"]
    /\ UNCHANGED <<subTask, subInst, startId, subFailed, subLast, running,
                   failures, lastRange>>
    /\ UNCHANGED <<logVars, grpVars, taskVars>>

\* the caller asks for the next event: the cursor moves past the event just
\* yielded, then the next entry of the batch is yielded or the loop goes on
SubResume(s) ==
    /\ subPc[s] = "yield"
    /\ Tail(subBatch[s]) # <<>> => Decodes(Head(Tail(subBatch[s])))
    /\ startId' = [startId EXCEPT ![s] = CursorAfterYield(Head(subBatch[s]).id)]
    /\ subBatch' = [subBatch EXCEPT ![s] = Tail(@)]
    /\ IF Tail(subBatch[s]) # <<>>
       THEN /\ yielded' = [yielded EXCEPT
                             ![s] = Append(@, WithId(Head(Tail(subBatch[s]))))]
            /\ UNCHANGED subPc
       ELSE /\ subPc' = [subPc EXCEPT ![s] = "loop"]
            /\ UNCHANGED yielded
    /\ UNCHANGED <<subTask, subInst, subFailed, subLast, running, failures,
                   lastRange>>
    /\ UNCHANGED <<logVars, grpVars, taskVars>>

\* json.loads(fields[b"data"].decode()) raises KeyError or JSONDecodeError on
\* the next entry of the batch: the error is not a RedisError, it leaves the
\* generator; finally: self._running = False
SubDecodeFails(s) ==
    /\ \/ /\ subPc[s] = "loop"
          /\ running[subInst[s]]
          /\ LET r == XRead(stream[subTask[s]], startId[s], XREAD_COUNT) IN
                /\ r.error = None
                /\ r.entries # <<>>
                /\ ~Decodes(Head(r.entries))
          /\ UNCHANGED startId
       \/ /\ subPc[s] = "yield"
          /\ Tail(subBatch[s]) # <<>>
          /\ ~Decodes(Head(Tail(subBatch[s])))
          /\ startId' = [startId EXCEPT ![s] = CursorAfterYield(Head(subBatch[s]).id)]
    /\ subPc' = [subPc EXCEPT ![s] = "raised"]
    /\ subBatch' = [subBatch EXCEPT ![s] = <<>>]
    /\ running' = [running EXCEPT ![subInst[s]] = FALSE]
    /\ UNCHANGED <<subTask, subInst, yielded, subFailed, subLast, failures,
                   lastRange>>
    /\ UNCHANGED <<logVars, grpVars, taskVars>>

\* xread raises RedisError because the server rejects the command
SubReadRejected(s) ==
    /\ subPc[s] = "loop"
    /\ running[subInst[s]]
    /\ XRead(stream[subTask[s]], startId[s], XREAD_COUNT).error # None
    /\ startId' = [startId EXCEPT ![s] = CursorAfterError(@)]
    /\ subPc' = [subPc EXCEPT ![s] = "backoff"]
    /\ subFailed' = [subFailed EXCEPT ![s] = TRUE]
    /\ UNCHANGED <<subTask, subInst, subBatch, yielded, subLast, running,
                   failures, lastRange>>
    /\ UNCHANGED <<logVars, grpVars, taskVars>>

\* xread raises RedisError because the store cannot be reached
SubReadFails(s) ==
    /\ subPc[s] = "loop"
    /\ running[subInst[s]]
    /\ failures < MaxFailures
    /\ failures' = failures + 1
    /\ startId' = [startId EXCEPT ![s] = CursorAfterError(@)]
    /\ subPc' = [subPc EXCEPT ![s] = "backoff"]
    /\ subFailed' = [subFailed EXCEPT ![s] = TRUE]
    /\ UNCHANGED <<subTask, subInst, subBatch, yielded, subLast, running,
                   lastRange>>
    /\ UNCHANGED <<logVars, grpVars, taskVars>>

\* await asyncio.sleep(1) in the except branch, then the loop head again
SubBackoff(s) ==
    /\ subPc[s] = "backoff"
    /\ subPc' = [subPc EXCEPT ![s] = "loop"]
    /\ UNCHANGED <<subTask, subInst, startId, subBatch, yielded, subFailed,
                   subLast, running, failures, lastRange>>
    /\ UNCHANGED <<logVars, grpVars, taskVars>>

\* mutant: the loop does not test self._running and reads on after stop()
SubReadsWhenStopped(s) ==
    /\ subPc[s] = "loop"
    /\ ~running[subInst[s]]
    /\ LET r == XRead(stream[subTask[s]], PlainCursor(startId[s].id), XREAD_COUNT) IN
          /\ r.entries # <<>>
          /\ subBatch' = [subBatch EXCEPT ![s] = r.entries]
          /\ yielded' = [yielded EXCEPT ![s] = Append(@, WithId(Head(r.entries)))]
    /\ subPc' = [subPc EXCEPT ![s] = "yield"]
    /\ UNCHANGED <<subTask, subInst, startId, subFailed, subLast, running,
                   failures, lastRange>>
    /\ UNCHANGED <<logVars, grpVars, taskVars>>

\* while self._running is false: the loop ends; finally: self._running = False
SubExit(s) ==
    /\ subPc[s] = "loop"
    /\ ~running[subInst[s]]
    /\ subPc' = [subPc EXCEPT ![s] = "done"]
    /\ UNCHANGED <<subTask, subInst, startId, subBatch, yielded, subFailed,
                   subLast, running, failures, lastRange>>
    /\ UNCHANGED <<logVars, grpVars, taskVars>>

\* the caller stops iterating (break, disconnect): the generator is closed
\* where it is suspended; finally: self._running = False
SubCallerStops(s) ==
    /\ subPc[s] \in {"yield", "loop", "backoff"}
    /\ subPc' = [subPc EXCEPT ![s] = "done"]
    /\ subBatch' = [subBatch EXCEPT ![s] = <<>>]
    /\ running' = [running EXCEPT ![subInst[s]] = FALSE]
    /\ UNCHANGED <<subTask, subInst, startId, yielded, subFailed, subLast,
                   failures, lastRange>>
    /\ UNCHANGED <<logVars, grpVars, taskVars>>

\* RedisEventSubscriber.stop
SubStop(i) ==
    /\ running[i]
    /\ running' = [running EXCEPT ![i] = FALSE]
    /\ UNCHANGED <<subPc, subTask, subInst, startId, subBatch, yielded,
                   subFailed, subLast, failures, lastRange>>
    /\ UNCHANGED <<logVars, grpVars, taskVars>>

(***************************************************************************)
(* api.stream_task.generate: the SSE stream of a task                      *)
(***************************************************************************)
\* format_sse_event(data, event_id): the id line (absent: NoId), the event
\* line and the data line
format_sse_event(data, event_id) ==
    [id |-> event_id, event |-> data.type, data |-> JsonDumps(data)]

\* mutant: no event type ends the stream
IsTerminalEventNever(event) == FALSE

\* event.get("type") in [f"task.{s}" for s in TERMINAL_STATES]
IsTerminalEvent(event) ==
    event.type \in {"task.completed", "task.failed", "task.canceled", "task.rejected"}

\* the event emitted before the log events: {"type": f"task.{state}", ...}
StateEventType(state) ==
    CASE state = "submitted" -> "task.submitted"
      [] state = "working" -> "task.working"
      [] OTHER -> "task.unknown"

\* the SSE event of the event the subscriber s has yielded last
LastYieldedSse(ys) ==
    format_sse_event(ys[Len(ys)], ys[Len(ys)]["_id"])

\* generate() for a task that does not exist: one TASK_NOT_FOUND error event
StreamNotFound(s, t) ==
    /\ strPc[s] = "none"
    /\ ~tasks[t].exists
    /\ strOut' = [strOut EXCEPT
          ![s] = <<format_sse_event([type |-> "error", code |-> "TASK_NOT_FOUND"], NoId)>>]
    /\ strPc' = [strPc EXCEPT ![s] = "done"]
    /\ UNCHANGED <<subPc, subTask, subInst, startId, subBatch, yielded, subFailed,
                   subLast, running, failures, lastRange>>
    /\ UNCHANGED <<logVars, grpVars, taskVars>>

\* generate() as stream_task runs it: RedisEventSubscriber(redis_url=...,
\* stream_prefix=...) raises TypeError (the constructor takes redis) before
\* anything is emitted
StreamConstructFails(s, t) ==
    /\ strPc[s] = "none"
    /\ tasks[t].exists
    /\ strPc' = [strPc EXCEPT ![s] = "raised"]
    /\ UNCHANGED <<strOut, subPc, subTask, subInst, startId, subBatch, yielded,
                   subFailed, subLast, running, failures, lastRange>>
    /\ UNCHANGED <<logVars, grpVars, taskVars>>

\* the body of generate() from its try on, run with a subscriber built the
\* way events.py defines it: the task.{state} event of a non-terminal task,
\* then the first step of subscribe(task_id, last_event_id)
StreamOpen(s, t, i) ==
    /\ strPc[s] = "none"
    /\ tasks[t].exists
    /\ SubscribeStart(s, t, i)
    /\ strOut' = [strOut EXCEPT
          ![s] = IF tasks[t].state \notin TERMINAL_STATES
                 THEN <<format_sse_event([type |-> StateEventType(tasks[t].state)], NoId)>>
                 ELSE <<>>]
    /\ strPc' = [strPc EXCEPT ![s] = "open"]

\* async for event in subscriber.subscribe(...): a read answers entries, the
\* first is yielded to the loop body, which emits it
StreamRead(s) ==
    /\ strPc[s] = "open"
    /\ SubReadEntries(s)
    /\ strOut' = [strOut EXCEPT ![s] = Append(@, LastYieldedSse(yielded'[s]))]
    /\ UNCHANGED strPc

\* the client takes the next SSE event: after a terminal event the loop
\* breaks and the subscription is closed; else the subscription goes on and
\* the next entry of its batch, if any, is emitted
StreamNext(s) ==
    /\ strPc[s] = "open"
    /\ subPc[s] = "yield"
    /\ IF IsTerminalEvent(yielded[s][Len(yielded[s])])
       THEN /\ SubCallerStops(s)
            /\ strPc' = [strPc EXCEPT ![s] = "done"]
            /\ UNCHANGED strOut
       ELSE /\ SubResume(s)
            /\ strOut' = [strOut EXCEPT
                  ![s] = IF yielded'[s] # yielded[s]
                         THEN Append(@, LastYieldedSse(yielded'[s])) ELSE @]
            /\ UNCHANGED strPc

\* the reads of the subscription that yield nothing
StreamReadRejected(s) == strPc[s] = "open" /\ SubReadRejected(s) /\ UNCHANGED strVars
StreamReadFails(s) == strPc[s] = "open" /\ SubReadFails(s) /\ UNCHANGED strVars
StreamBackoff(s) == strPc[s] = "open" /\ SubBackoff(s) /\ UNCHANGED strVars

\* the client disconnects: the generators are closed where they are suspended
StreamClientGone(s) ==
    /\ strPc[s] = "open"
    /\ SubCallerStops(s)
    /\ strPc' = [strPc EXCEPT ![s] = "gone"]
    /\ UNCHANGED strOut

(***************************************************************************)
(* RedisConsumerGroup: _ensure_group, consume, stop                        *)
(***************************************************************************)
Consumers == {"c1", "c2"}

\* the task whose events the consumers of the group split
GroupTask == "t1"

NoGroup == [created |-> FALSE, lastDelivered |-> ZeroId, pending |-> {}]

\* mutant: an existing group is created again, from the start of the log
EnsureGroupRecreates(g) ==
    [created |-> TRUE, lastDelivered |-> ZeroId, pending |-> g.pending]

\* xgroup_create(stream_key, group, id="0", mkstream=True); the ResponseError
\* of an existing group is passed over
EnsureGroup(g) ==
    IF g.created THEN g
    ELSE [created |-> TRUE, lastDelivered |-> ZeroId, pending |-> {}]

\* XREADGROUP GROUP g consumer COUNT count STREAMS key > : the entries after
\* the group's last delivered ID
XReadGroupEntries(log, g, count) == Take(After(log, g.lastDelivered), count)

\* the group after the delivery of entries to consumer c
Delivered(g, entries, c) ==
    [g EXCEPT !.lastDelivered = entries[Len(entries)].id,
              !.pending = @ \cup {[id |-> entries[i].id, consumer |-> c] :
                                     i \in 1..Len(entries)}]

\* XACK key group id
XAck(g, id) == [g EXCEPT !.pending = {p \in @ : p.id # id}]

\* the first __anext__ of consume(task_id, consumer_name)
ConsumeStart(c) ==
    /\ conPc[c] = "new"
    /\ group' = [group EXCEPT ![GroupTask] = EnsureGroup(@)]
    /\ conRunning' = [conRunning EXCEPT ![c] = TRUE]
    /\ conPc' = [conPc EXCEPT ![c] = "read"]
    /\ UNCHANGED <<conBatch, conYielded, failures, lastRange>>
    /\ UNCHANGED <<logVars, subVars, taskVars, lastPending>>

\* mutant: the entry is acknowledged when it is yielded, before the caller
\* asks for the next event
ConReadAcksAtYield(c) ==
    /\ conPc[c] = "read"
    /\ conRunning[c]
    /\ LET entries == XReadGroupEntries(stream[GroupTask], group[GroupTask],
                                        XREADGROUP_COUNT) IN
          /\ entries # <<>>
          /\ Decodes(Head(entries))
          /\ group' = [group EXCEPT
                ![GroupTask] = XAck(Delivered(@, entries, c), Head(entries).id)]
          /\ conBatch' = [conBatch EXCEPT ![c] = entries]
          /\ conYielded' = [conYielded EXCEPT ![c] = Append(@, WithId(Head(entries)))]
    /\ conPc' = [conPc EXCEPT ![c] = "yield"]
    /\ UNCHANGED <<conRunning, failures, lastRange>>
    /\ UNCHANGED <<logVars, subVars, taskVars, lastPending>>

\* while self._running: messages = await xreadgroup(...); the answer holds
\* entries and the first of them is yielded
ConRead(c) ==
    /\ conPc[c] = "read"
    /\ conRunning[c]
    /\ LET entries == XReadGroupEntries(stream[GroupTask], group[GroupTask],
                                        XREADGROUP_COUNT) IN
          /\ entries # <<>>
          /\ Decodes(Head(entries))
          /\ group' = [group EXCEPT ![GroupTask] = Delivered(@, entries, c)]
          /\ conBatch' = [conBatch EXCEPT ![c] = entries]
          /\ conYielded' = [conYielded EXCEPT ![c] = Append(@, WithId(Head(entries)))]
    /\ conPc' = [conPc EXCEPT ![c] = "yield"]
    /\ UNCHANGED <<conRunning, failures, lastRange>>
    /\ UNCHANGED <<logVars, subVars, taskVars, lastPending>>

\* xreadgroup returns nothing within block=5000 ms: if messages is false,
\* the loop goes on
ConReadEmpty(c) ==
    /\ conPc[c] = "read"
    /\ conRunning[c]
    /\ XReadGroupEntries(stream[GroupTask], group[GroupTask], XREADGROUP_COUNT) = <<>>
    /\ UNCHANGED <<group, conPc, conBatch, conYielded, conRunning, failures, lastRange>>
    /\ UNCHANGED <<logVars, subVars, taskVars, lastPending>>

\* the caller asks for the next event: the entry just yielded is
\* acknowledged, then the next entry of the batch is yielded or the loop
\* goes on
ConResume(c) ==
    /\ conPc[c] = "yield"
    /\ Tail(conBatch[c]) # <<>> => Decodes(Head(Tail(conBatch[c])))
    /\ group' = [group EXCEPT ![GroupTask] = XAck(@, Head(conBatch[c]).id)]
    /\ conBatch' = [conBatch EXCEPT ![c] = Tail(@)]
    /\ IF Tail(conBatch[c]) # <<>>
       THEN /\ conYielded' = [conYielded EXCEPT
                                ![c] = Append(@, WithId(Head(Tail(conBatch[c]))))]
            /\ UNCHANGED conPc
       ELSE /\ conPc' = [conPc EXCEPT ![c] = "read"]
            /\ UNCHANGED conYielded
    /\ UNCHANGED <<conRunning, failures, lastRange>>
    /\ UNCHANGED <<logVars, subVars, taskVars, lastPending>>

\* json.loads(fields[b"data"].decode()) raises KeyError or JSONDecodeError on
\* the next entry of the batch: the error is not a RedisError, it leaves the
\* generator with the undecoded entries pending; finally: _running = False
ConDecodeFails(c) ==
    /\ \/ /\ conPc[c] = "read"
          /\ conRunning[c]
          /\ LET entries == XReadGroupEntries(stream[GroupTask], group[GroupTask],
                                              XREADGROUP_COUNT) IN
                /\ entries # <<>>
                /\ ~Decodes(Head(entries))
                /\ group' = [group EXCEPT ![GroupTask] = Delivered(@, entries, c)]
       \/ /\ conPc[c] = "yield"
          /\ Tail(conBatch[c]) # <<>>
          /\ ~Decodes(Head(Tail(conBatch[c])))
          /\ group' = [group EXCEPT ![GroupTask] = XAck(@, Head(conBatch[c]).id)]
    /\ conPc' = [conPc EXCEPT ![c] = "raised"]
    /\ conBatch' = [conBatch EXCEPT ![c] = <<>>]
    /\ conRunning' = [conRunning EXCEPT ![c] = FALSE]
    /\ UNCHANGED <<conYielded, failures, lastRange>>
    /\ UNCHANGED <<logVars, subVars, taskVars, lastPending>>

\* xack raises RedisError: the except branch of the loop is taken, the rest
\* of the batch is dropped unacknowledged
ConAckFails(c) ==
    /\ conPc[c] = "yield"
    /\ failures < MaxFailures
    /\ failures' = failures + 1
    /\ conBatch' = [conBatch EXCEPT ![c] = <<>>]
    /\ conPc' = [conPc EXCEPT ![c] = "backoff"]
    /\ UNCHANGED <<group, conYielded, conRunning, lastRange>>
    /\ UNCHANGED <<logVars, subVars, taskVars, lastPending>>

\* xreadgroup raises RedisError because the store cannot be reached
ConReadFails(c) ==
    /\ conPc[c] = "read"
    /\ conRunning[c]
    /\ failures < MaxFailures
    /\ failures' = failures + 1
    /\ conPc' = [conPc EXCEPT ![c] = "backoff"]
    /\ UNCHANGED <<group, conBatch, conYielded, conRunning, lastRange>>
    /\ UNCHANGED <<logVars, subVars, taskVars, lastPending>>

\* await asyncio.sleep(1) in the except branch, then the loop head again
ConBackoff(c) ==
    /\ conPc[c] = "backoff"
    /\ conPc' = [conPc EXCEPT ![c] = "read"]
    /\ UNCHANGED <<group, conBatch, conYielded, conRunning, failures, lastRange>>
    /\ UNCHANGED <<logVars, subVars, taskVars, lastPending>>

\* while self._running is false: the loop ends
ConExit(c) ==
    /\ conPc[c] = "read"
    /\ ~conRunning[c]
    /\ conPc' = [conPc EXCEPT ![c] = "done"]
    /\ UNCHANGED <<group, conBatch, conYielded, conRunning, failures, lastRange>>
    /\ UNCHANGED <<logVars, subVars, taskVars, lastPending>>

\* the caller stops iterating: the generator is closed where it is suspended,
\* the entry it was yielding is not acknowledged; finally: _running = False
ConCallerStops(c) ==
    /\ conPc[c] \in {"yield", "read", "backoff"}
    /\ conPc' = [conPc EXCEPT ![c] = "done"]
    /\ conBatch' = [conBatch EXCEPT ![c] = <<>>]
    /\ conRunning' = [conRunning EXCEPT ![c] = FALSE]
    /\ UNCHANGED <<group, conYielded, failures, lastRange>>
    /\ UNCHANGED <<logVars, subVars, taskVars, lastPending>>

\* RedisConsumerGroup.stop on the instance of consumer c
ConStop(c) ==
    /\ conRunning[c]
    /\ conRunning' = [conRunning EXCEPT ![c] = FALSE]
    /\ UNCHANGED <<group, conPc, conBatch, conYielded, failures, lastRange>>
    /\ UNCHANGED <<logVars, subVars, taskVars, lastPending>>

(***************************************************************************)
(* RedisConsumerGroup.get_pending_events                                   *)
(***************************************************************************)
NoPending ==
    [op |-> None, count |-> 0, result |-> <<>>, held |-> {},
     failed |-> FALSE, raised |-> FALSE]

\* the entries of a pending list in the order of their IDs
RECURSIVE SortedPending(_)
SortedPending(pending) ==
    IF pending = {} THEN <<>>
    ELSE LET first == CHOOSE p \in pending :
                          \A q \in pending : q.id = p.id \/ IdLess(p.id, q.id)
         IN <<first>> \o SortedPending(pending \ {first})

\* XPENDING key group - + count: the first count pending entries
XPendingRange(g, count) == Take(SortedPending(g.pending), count)

\* the list get_pending_events builds from the answer
PendingItems(entries) ==
    [i \in 1..Len(entries) |->
        [message_id |-> entries[i].id, consumer |-> entries[i].consumer]]

PendingCounts == {PENDING_COUNT, 2 * PENDING_COUNT}

get_pending_events(g, count) == PendingItems(XPendingRange(g, count))

GetPendingEvents(t) ==
    /\ \E count \in PendingCounts :
          lastPending' = [op |-> "pending", count |-> count,
                          result |-> get_pending_events(group[t], count),
                          held |-> group[t].pending,
                          failed |-> FALSE, raised |-> FALSE]
    /\ UNCHANGED <<group, conPc, conBatch, conYielded, conRunning, failures, lastRange>>
    /\ UNCHANGED <<logVars, subVars, taskVars>>

\* xpending_range raises RedisError: except RedisError: log, return []
GetPendingEventsFails(t) ==
    /\ failures < MaxFailures
    /\ failures' = failures + 1
    /\ \E count \in PendingCounts :
          lastPending' = [op |-> "pending", count |-> count, result |-> <<>>,
                          held |-> group[t].pending,
                          failed |-> TRUE, raised |-> FALSE]
    /\ UNCHANGED <<group, conPc, conBatch, conYielded, conRunning, lastRange>>
    /\ UNCHANGED <<logVars, subVars, taskVars>>

(***************************************************************************)
(* TaskService: the a2a_tasks rows                                         *)
(***************************************************************************)
NoTask == [exists |-> FALSE, state |-> None, status_message |-> None,
           history |-> <<>>, artifacts |-> <<>>]

\* TaskService.create: status_state="submitted", history=[message_data]
create(message) ==
    [exists |-> TRUE, state |-> "submitted", status_message |-> None,
     history |-> <<message>>, artifacts |-> <<>>]

\* mutant: the status is written only over a non-terminal state
update_status_guarded(row, state, message) ==
    IF row.exists /\ row.state \notin TERMINAL_STATES
    THEN [row EXCEPT !.state = state, !.status_message = message]
    ELSE row

\* mutant: the status is written by saving a whole row, whose lists are
\* those the task was created with
update_status_saves_row(row, state, message) ==
    IF row.exists
    THEN [row EXCEPT !.state = state, !.status_message = message,
                     !.history = <<Head(row.history)>>, !.artifacts = <<>>]
    ELSE row

\* TaskService.update_status: one UPDATE of the row's two status columns,
\* whatever the row holds
update_status(row, state, message) ==
    IF row.exists
    THEN [row EXCEPT !.state = state, !.status_message = message]
    ELSE row

(***************************************************************************)
(* FakeAgentExecutor.execute: the events one run emits, in order           *)
(***************************************************************************)
\* num_chunks: int = 5, scaled down
NUM_CHUNKS == 2

ChunkText == <<"chunk1", "chunk2", "chunk3">>

\* mutant: the artifact is emitted before the text chunks
FakeAgentEventsArtifactFirst ==
    <<MkEvent("task.working", "unknown", None, None),
      MkEvent("tool-call", "unknown", None, None),
      MkEvent("tool-call-result", "unknown", None, None),
      MkEvent("task.artifact", "unknown", None, "analysis_result")>>
    \o [i \in 1..NUM_CHUNKS |-> MkEvent("task.message", "unknown", ChunkText[i], None)]
    \o <<MkEvent("task.completed", "unknown", "Task completed successfully!", None)>>

\* task_id = message.get("taskId", "unknown"): message_data has no taskId
FakeAgentEvents ==
    <<MkEvent("task.working", "unknown", None, None),
      MkEvent("tool-call", "unknown", None, None),
      MkEvent("tool-call-result", "unknown", None, None)>>
    \o [i \in 1..NUM_CHUNKS |-> MkEvent("task.message", "unknown", ChunkText[i], None)]
    \o <<MkEvent("task.artifact", "unknown", None, "analysis_result"),
         MkEvent("task.completed", "unknown", "Task completed successfully!", None)>>

NoEvent == MkEvent(None, None, None, None)

(***************************************************************************)
(* handlers.py and api.py: what on_event does with an event once published *)
(***************************************************************************)
\* the event types for which event_type.startswith("task.") holds
TaskEventTypes == {"task.working", "task.message", "task.artifact",
                   "task.completed", "task.failed", "task.canceled",
                   "task.rejected"}

\* event_type.removeprefix("task.") for the event types of the program
RemovePrefixTask(event_type) ==
    CASE event_type = "task.working" -> "working"
      [] event_type = "task.message" -> "message"
      [] event_type = "task.artifact" -> "artifact"
      [] event_type = "task.completed" -> "completed"
      [] event_type = "task.failed" -> "failed"
      [] event_type = "task.canceled" -> "canceled"
      [] event_type = "task.rejected" -> "rejected"
      [] OTHER -> event_type

\* mutant: every event type is taken for the name of a state
_get_terminal_state_of_any(event_type) == RemovePrefixTask(event_type)

\* handlers._get_terminal_state
_get_terminal_state(event_type) ==
    IF event_type \notin TaskEventTypes THEN None
    ELSE LET state == RemovePrefixTask(event_type) IN
         IF state \in TERMINAL_STATES THEN state ELSE None

\* mutant: a payload event is published and its payload dropped
ProcessBranchDropsPayload(event) ==
    IF _get_terminal_state(event.type) # None THEN "status" ELSE "none"

\* the branch handlers._process_task_event takes after the publish:
\* "list" (append_message / add_artifact), "status" (update_status), "none"
ProcessBranch(event) ==
    CASE event.type = "task.message" ->
            IF event.message # None THEN "list" ELSE "none"
      [] event.type = "task.artifact" ->
            IF event.artifact # None THEN "list" ELSE "none"
      [] OTHER ->
            IF _get_terminal_state(event.type) # None THEN "status" ELSE "none"

\* the branch the on_event closure of api.handle_tasks_send takes: its last
\* test is event_type in TERMINAL_STATES, on the event type itself
ApiOnEventBranch(event) ==
    CASE event.type = "task.message" ->
            IF event.message # None THEN "list" ELSE "none"
      [] event.type = "task.artifact" ->
            IF event.artifact # None THEN "list" ELSE "none"
      [] OTHER ->
            IF event.type \in TERMINAL_STATES THEN "status" ELSE "none"

\* the state written by the "status" branch
StatusOf(via, event) ==
    IF via = "handlers" THEN _get_terminal_state(event.type)
    ELSE IF event.type = "task.completed" THEN "completed"
    ELSE RemovePrefixTask(event.type)

BranchOf(via, event) ==
    IF via = "handlers" THEN ProcessBranch(event) ELSE ApiOnEventBranch(event)

\* mutant: every exception is answered as an internal error
RpcErrorCodeInternal(exc) == -32603

\* api.handle_rpc: the JSON-RPC error code of an exception of the handler
RpcErrorCode(exc) ==
    CASE exc = "ValueError" -> -32602
      [] exc = "LookupError" -> -32601
      [] OTHER -> -32603

NoResponse == [code |-> 0, state |-> None]
\* no tasks/get answered yet
NoGet == [asked |-> FALSE, given |-> FALSE, historyLength |-> 0,
          history |-> <<>>, stored |-> <<>>]
NoResponses ==
    [send |-> NoResponse, cancel |-> NoResponse, get |-> NoResponse,
     resubscribe |-> NoResponse]

(***************************************************************************)
(* tasks/send: handle_tasks_send, on_event, _process_task_event            *)
(***************************************************************************)
\* the modules whose on_event processes the events of a run
Vias == {"handlers", "api"}

\* mutant: the event is published as the executor emitted it
NextEventAsEmitted(t) == FakeAgentEvents[Len(processed[t]) + 1]

\* the event the executor emits next, as on_event publishes it:
\* event["taskId"] = task_id
NextEvent(t) ==
    [FakeAgentEvents[Len(processed[t]) + 1] EXCEPT !.taskId = t]

\* handle_tasks_send up to the start of the executor: the task row is
\* created.  via = "handlers" is handlers.handle_tasks_send; via = "api" is
\* the on_event closure of api.handle_tasks_send run with a publisher built
\* the way events.py defines it
HandleTasksSend(t, via) ==
    /\ sendPc[t] = "none"
    /\ tasks' = [tasks EXCEPT ![t] = create("user")]
    /\ sendVia' = [sendVia EXCEPT ![t] = via]
    /\ sendPc' = [sendPc EXCEPT ![t] = "agent"]
    /\ UNCHANGED <<curEvent, listRead, processed, canPc, cancels, rpcResponse>>
    /\ UNCHANGED <<logVars, failures, lastRange, subVars, grpVars, reqVars>>

\* tasks/send through api.handle_rpc: api.handle_tasks_send creates the row,
\* then RedisEventPublisher(redis_url=..., stream_prefix=...) raises
\* TypeError (the constructor takes redis), answered as an internal error
ApiHandleTasksSend(t) ==
    /\ sendPc[t] = "none"
    /\ tasks' = [tasks EXCEPT ![t] = create("user")]
    /\ sendVia' = [sendVia EXCEPT ![t] = "rpc"]
    /\ sendPc' = [sendPc EXCEPT ![t] = "raised"]
    /\ rpcResponse' = [rpcResponse EXCEPT
          ![t].send = [code |-> RpcErrorCode("TypeError"), state |-> None]]
    /\ UNCHANGED <<curEvent, listRead, processed, canPc, cancels>>
    /\ UNCHANGED <<logVars, failures, lastRange, subVars, grpVars, reqVars>>

\* mutant: publish fails without raising, on_event goes on to the store
OnEventPublishSwallowed(t) ==
    /\ sendPc[t] = "agent"
    /\ Len(processed[t]) < Len(FakeAgentEvents)
    /\ pubResult' = PublishSwallowsError(t)
    /\ curEvent' = [curEvent EXCEPT ![t] = NextEvent(t)]
    /\ sendPc' = [sendPc EXCEPT ![t] = "apply"]
    /\ UNCHANGED <<tasks, sendVia, listRead, processed, canPc, cancels, rpcResponse>>
    /\ UNCHANGED <<stream, lastId, clock, appended>>
    /\ UNCHANGED <<failures, lastRange, subVars, grpVars, reqVars>>

\* on_event up to the end of publisher.publish
OnEventPublish(t) ==
    /\ sendPc[t] = "agent"
    /\ Len(processed[t]) < Len(FakeAgentEvents)
    /\ XAddStep(t, JsonDumps(NextEvent(t)))
    /\ pubResult' = PublishReturns(t, NextId(lastId[t], clock))
    /\ curEvent' = [curEvent EXCEPT ![t] = NextEvent(t)]
    /\ sendPc' = [sendPc EXCEPT ![t] = "apply"]
    /\ UNCHANGED <<tasks, sendVia, listRead, processed, canPc, cancels, rpcResponse>>
    /\ UNCHANGED <<failures, lastRange, subVars, grpVars, reqVars>>

\* mutant: the failure of the publish is recorded in the stored task
OnEventPublishFailsMarksFailed(t) ==
    /\ sendPc[t] = "agent"
    /\ Len(processed[t]) < Len(FakeAgentEvents)
    /\ failures < MaxFailures
    /\ failures' = failures + 1
    /\ sendPc' = [sendPc EXCEPT ![t] = "raised"]
    /\ rpcResponse' = [rpcResponse EXCEPT
          ![t].send = [code |-> RpcErrorCode("RedisError"), state |-> None]]
    /\ pubResult' = PublishOnError(t)
    /\ tasks' = [tasks EXCEPT ![t] = update_status(@, "failed", None)]
    /\ UNCHANGED <<sendVia, curEvent, listRead, processed, canPc, cancels>>
    /\ UNCHANGED <<stream, lastId, clock, appended, lastRange, subVars, grpVars, reqVars>>

\* publisher.publish raises RedisError: on_event, the executor and
\* handle_tasks_send are left by the exception
OnEventPublishFails(t) ==
    /\ sendPc[t] = "agent"
    /\ Len(processed[t]) < Len(FakeAgentEvents)
    /\ failures < MaxFailures
    /\ failures' = failures + 1
    /\ sendPc' = [sendPc EXCEPT ![t] = "raised"]
    /\ rpcResponse' = [rpcResponse EXCEPT
          ![t].send = [code |-> RpcErrorCode("RedisError"), state |-> None]]
    /\ pubResult' = PublishOnError(t)
    /\ UNCHANGED <<tasks, sendVia, curEvent, listRead, processed, canPc, cancels>>
    /\ UNCHANGED <<stream, lastId, clock, appended, lastRange, subVars, grpVars, reqVars>>

\* on_event after the publish: nothing, update_status, or the aget of
\* append_message / add_artifact
OnEventApply(t) ==
    /\ sendPc[t] = "apply"
    /\ LET event == curEvent[t]
           branch == BranchOf(sendVia[t], event) IN
       CASE branch = "status" ->
               /\ tasks' = [tasks EXCEPT
                     ![t] = update_status(@, StatusOf(sendVia[t], event), event.message)]
               /\ processed' = [processed EXCEPT ![t] = Append(@, event.type)]
               /\ sendPc' = [sendPc EXCEPT ![t] = "agent"]
               /\ UNCHANGED listRead
         [] branch = "list" ->
               /\ listRead' = [listRead EXCEPT
                     ![t] = IF event.type = "task.message"
                            THEN tasks[t].history ELSE tasks[t].artifacts]
               /\ sendPc' = [sendPc EXCEPT ![t] = "write"]
               /\ UNCHANGED <<tasks, processed>>
         [] OTHER ->
               /\ processed' = [processed EXCEPT ![t] = Append(@, event.type)]
               /\ sendPc' = [sendPc EXCEPT ![t] = "agent"]
               /\ UNCHANGED <<tasks, listRead>>
    /\ UNCHANGED <<sendVia, curEvent, canPc, cancels, rpcResponse>>
    /\ UNCHANGED <<logVars, failures, lastRange, subVars, grpVars, reqVars>>

\* the aupdate of append_message / add_artifact: the list read, with the
\* payload appended, is written to its column
OnEventListWrite(t) ==
    /\ sendPc[t] = "write"
    /\ LET event == curEvent[t] IN
       /\ tasks' = [tasks EXCEPT
             ![t] = IF event.type = "task.message"
                    THEN [@ EXCEPT !.history = Append(listRead[t], event.message)]
                    ELSE [@ EXCEPT !.artifacts = Append(listRead[t], event.artifact)]]
       /\ processed' = [processed EXCEPT ![t] = Append(@, event.type)]
    /\ sendPc' = [sendPc EXCEPT ![t] = "agent"]
    /\ UNCHANGED <<sendVia, curEvent, listRead, canPc, cancels, rpcResponse>>
    /\ UNCHANGED <<logVars, failures, lastRange, subVars, grpVars, reqVars>>

\* the executor has returned: fresh_task = await TaskService.get(task_id),
\* its state is the result
SendReturn(t) ==
    /\ sendPc[t] = "agent"
    /\ Len(processed[t]) = Len(FakeAgentEvents)
    /\ sendPc' = [sendPc EXCEPT ![t] = "done"]
    /\ rpcResponse' = [rpcResponse EXCEPT
          ![t].send = [code |-> 0, state |-> tasks[t].state]]
    /\ UNCHANGED <<tasks, sendVia, curEvent, listRead, processed, canPc, cancels>>
    /\ UNCHANGED <<logVars, failures, lastRange, subVars, grpVars, reqVars>>

\* xadd raises RedisError after the server ran the command (the reply is
\* lost): the event is in the log, on_event, the executor and
\* handle_tasks_send are left by the exception before the store is touched
OnEventPublishReplyLost(t) ==
    /\ sendPc[t] = "agent"
    /\ Len(processed[t]) < Len(FakeAgentEvents)
    /\ failures < MaxFailures
    /\ failures' = failures + 1
    /\ XAddStep(t, JsonDumps(NextEvent(t)))
    /\ pubResult' = PublishOnError(t)
    /\ sendPc' = [sendPc EXCEPT ![t] = "raised"]
    /\ rpcResponse' = [rpcResponse EXCEPT
          ![t].send = [code |-> RpcErrorCode("RedisError"), state |-> None]]
    /\ UNCHANGED <<tasks, sendVia, curEvent, listRead, processed, canPc, cancels>>
    /\ UNCHANGED <<lastRange, subVars, grpVars, reqVars>>

\* the process serving tasks/send dies at one of the awaits of the run:
\* before a publish, between the publish and the store update, or between
\* the read and the write of a list
SendCrash(t) ==
    /\ sendPc[t] \in {"agent", "apply", "write"}
    /\ sendPc' = [sendPc EXCEPT ![t] = "crashed"]
    /\ UNCHANGED <<tasks, sendVia, curEvent, listRead, processed, canPc, cancels,
                   rpcResponse>>
    /\ UNCHANGED <<logVars, failures, lastRange, subVars, grpVars, reqVars>>

(***************************************************************************)
(* tasks/cancel: handle_tasks_cancel                                       *)
(***************************************************************************)
\* task = await TaskService.get(id) and the two checks on it
CancelGet(t) ==
    /\ canPc[t] = "idle"
    /\ cancels[t] < MaxCancels
    /\ IF ~tasks[t].exists
       THEN /\ rpcResponse' = [rpcResponse EXCEPT
                  ![t].cancel = [code |-> RpcErrorCode("LookupError"), state |-> None]]
            /\ cancels' = [cancels EXCEPT ![t] = @ + 1]
            /\ UNCHANGED canPc
       ELSE IF tasks[t].state \in TERMINAL_STATES
       THEN /\ rpcResponse' = [rpcResponse EXCEPT
                  ![t].cancel = [code |-> RpcErrorCode("ValueError"), state |-> None]]
            /\ cancels' = [cancels EXCEPT ![t] = @ + 1]
            /\ UNCHANGED canPc
       ELSE /\ canPc' = [canPc EXCEPT ![t] = "write"]
            /\ UNCHANGED <<rpcResponse, cancels>>
    /\ UNCHANGED <<tasks, sendPc, sendVia, curEvent, listRead, processed>>
    /\ UNCHANGED <<logVars, failures, lastRange, subVars, grpVars, reqVars>>

\* await TaskService.update_status(id, "canceled")
CancelWrite(t) ==
    /\ canPc[t] = "write"
    /\ tasks' = [tasks EXCEPT ![t] = update_status(@, "canceled", None)]
    /\ canPc' = [canPc EXCEPT ![t] = "reget"]
    /\ UNCHANGED <<sendPc, sendVia, curEvent, listRead, processed, cancels, rpcResponse>>
    /\ UNCHANGED <<logVars, failures, lastRange, subVars, grpVars, reqVars>>

\* result_task = await TaskService.get(id); return result_task.model_dump()
CancelReturn(t) ==
    /\ canPc[t] = "reget"
    /\ rpcResponse' = [rpcResponse EXCEPT
          ![t].cancel = [code |-> 0, state |-> tasks[t].state]]
    /\ cancels' = [cancels EXCEPT ![t] = @ + 1]
    /\ canPc' = [canPc EXCEPT ![t] = "idle"]
    /\ UNCHANGED <<tasks, sendPc, sendVia, curEvent, listRead, processed>>
    /\ UNCHANGED <<logVars, failures, lastRange, subVars, grpVars, reqVars>>

(***************************************************************************)
(* tasks/get and tasks/resubscribe                                         *)
(***************************************************************************)
\* the answer of a handler that reads the task and raises LookupError when
\* TaskService.get returns None
AnswerOfGet(row) ==
    IF ~row.exists THEN [code |-> RpcErrorCode("LookupError"), state |-> None]
    ELSE [code |-> 0, state |-> row.state]

\* api.handle_tasks_get through handle_rpc
HandleTasksGet(t) ==
    /\ rpcResponse' = [rpcResponse EXCEPT ![t].get = AnswerOfGet(tasks[t])]
    /\ UNCHANGED <<tasks, sendPc, sendVia, curEvent, listRead, processed, canPc, cancels>>
    /\ UNCHANGED <<logVars, failures, lastRange, subVars, grpVars, reqVars>>

\* api.handle_tasks_resubscribe through handle_rpc
HandleTasksResubscribe(t) ==
    /\ rpcResponse' = [rpcResponse EXCEPT ![t].resubscribe = AnswerOfGet(tasks[t])]
    /\ UNCHANGED <<tasks, sendPc, sendVia, curEvent, listRead, processed, canPc, cancels>>
    /\ UNCHANGED <<logVars, failures, lastRange, subVars, grpVars, reqVars>>

\* Python's seq[start:] on a list: a negative start counts from the end and
\* is clamped at the beginning, a start past the end gives the empty list
PySliceFrom(seq, start) ==
    LET first == IF start < 0
                 THEN (IF Len(seq) + start < 0 THEN 0 ELSE Len(seq) + start)
                 ELSE Min(start, Len(seq))
    IN SubSeq(seq, first + 1, Len(seq))

\* the historyLength values of a request that gives one
HistoryLengths == 0..MaxHistoryLength

\* handle_tasks_get: result = task.model_dump();
\* if historyLength is not None: result["history"] = history[-historyLength:]
\* (given: the request has a historyLength)
TasksGetWithHistory(t, given, historyLength) ==
    /\ rpcResponse' = [rpcResponse EXCEPT ![t].get = AnswerOfGet(tasks[t])]
    /\ getResult' = [getResult EXCEPT
          ![t] = IF ~tasks[t].exists THEN @
                 ELSE [asked |-> TRUE, given |-> given,
                       historyLength |-> IF given THEN historyLength ELSE 0,
                       history |-> IF given
                                   THEN PySliceFrom(tasks[t].history, -historyLength)
                                   ELSE tasks[t].history,
                       stored |-> tasks[t].history]]
    /\ UNCHANGED <<conversations, sendMethod, sendContext>>
    /\ UNCHANGED <<tasks, sendPc, sendVia, curEvent, listRead, processed, canPc, cancels>>
    /\ UNCHANGED <<logVars, failures, lastRange, subVars, grpVars>>

(***************************************************************************)
(* Conversations: ConversationService and the contextId of tasks/send      *)
(***************************************************************************)
ContextIds == {"ctx1", "ctx2"}

NoConversation == [exists |-> FALSE, is_streaming |-> FALSE]

SendMethods == {"tasks/send", "tasks/sendSubscribe"}

\* ConversationService.create: aget_or_create with
\* defaults={"agent_id": agent_id, "is_streaming": False}
CreateConversation(ctx) ==
    /\ conversations' = [conversations EXCEPT
          ![ctx] = IF @.exists THEN @ ELSE [exists |-> TRUE, is_streaming |-> FALSE]]
    /\ UNCHANGED <<sendMethod, sendContext, getResult>>
    /\ UNCHANGED <<tasks, sendPc, sendVia, curEvent, listRead, processed, canPc,
                   cancels, rpcResponse>>
    /\ UNCHANGED <<logVars, failures, lastRange, subVars, grpVars>>

\* ConversationService.get_detail: is_streaming=conv.is_streaming
get_detail(ctx) ==
    IF conversations[ctx].exists
    THEN [found |-> TRUE, is_streaming |-> conversations[ctx].is_streaming]
    ELSE [found |-> FALSE, is_streaming |-> FALSE]

\* tasks/send or tasks/sendSubscribe with a contextId, up to the start of the
\* executor: handle_tasks_send_subscribe calls handle_tasks_send, which
\* creates the task row with context_id=ctx; neither reads or writes a
\* conversation row
SendInContext(t, method, ctx) ==
    /\ sendPc[t] = "none"
    /\ tasks' = [tasks EXCEPT ![t] = create("user")]
    /\ sendVia' = [sendVia EXCEPT ![t] = "handlers"]
    /\ sendPc' = [sendPc EXCEPT ![t] = "agent"]
    /\ sendMethod' = [sendMethod EXCEPT ![t] = method]
    /\ sendContext' = [sendContext EXCEPT ![t] = ctx]
    /\ UNCHANGED <<conversations, getResult>>
    /\ UNCHANGED <<curEvent, listRead, processed, canPc, cancels, rpcResponse>>
    /\ UNCHANGED <<logVars, failures, lastRange, subVars, grpVars>>

(***************************************************************************)
(* The event log: one publisher, bulk reads and subscribers of a task.     *)
(***************************************************************************)
LogEvents == {MkEvent("task.working", "t1", None, None),
              MkEvent("task.completed", "t1", None, None)}

Init ==
    /\ stream = [t \in TaskIds |-> <<>>]
    /\ lastId = [t \in TaskIds |-> ZeroId]
    /\ clock = 0
    /\ appended = [t \in TaskIds |-> <<>>]
    /\ pubResult = NoPublish
    /\ failures = 0
    /\ lastRange = [op |-> None]
    /\ subPc = [s \in Subs |-> "new"]
    /\ subTask = [s \in Subs |-> None]
    /\ subInst = [s \in Subs |-> None]
    /\ startId = [s \in Subs |-> PlainCursor(ZeroId)]
    /\ subBatch = [s \in Subs |-> <<>>]
    /\ yielded = [s \in Subs |-> <<>>]
    /\ subFailed = [s \in Subs |-> FALSE]
    /\ subLast = [s \in Subs |-> NoId]
    /\ running = [i \in Insts |-> FALSE]
    /\ strPc = [s \in Subs |-> "none"]
    /\ strOut = [s \in Subs |-> <<>>]
    /\ group = [t \in TaskIds |-> NoGroup]
    /\ conPc = [c \in Consumers |-> "new"]
    /\ conBatch = [c \in Consumers |-> <<>>]
    /\ conYielded = [c \in Consumers |-> <<>>]
    /\ conRunning = [c \in Consumers |-> FALSE]
    /\ lastPending = NoPending
    /\ tasks = [t \in TaskIds |-> NoTask]
    /\ sendPc = [t \in TaskIds |-> "none"]
    /\ sendVia = [t \in TaskIds |-> None]
    /\ curEvent = [t \in TaskIds |-> NoEvent]
    /\ listRead = [t \in TaskIds |-> <<>>]
    /\ processed = [t \in TaskIds |-> <<>>]
    /\ canPc = [t \in TaskIds |-> "idle"]
    /\ cancels = [t \in TaskIds |-> 0]
    /\ rpcResponse = [t \in TaskIds |-> NoResponses]
    /\ conversations = [ctx \in ContextIds |-> NoConversation]
    /\ sendMethod = [t \in TaskIds |-> None]
    /\ sendContext = [t \in TaskIds |-> None]
    /\ getResult = [t \in TaskIds |-> NoGet]

\* publisher and bulk reads of one task
NextReplay ==
    \/ Tick
    \/ \E t \in LogTasks : \E e \in LogEvents : Publish(t, e)
    \/ \E t \in LogTasks : PublishFails(t)
    \/ \E t \in LogTasks : GetAllEvents(t)
    \/ \E t \in LogTasks : GetEventsSince(t)

SpecReplay == Init /\ [][NextReplay]_vars

\* the publisher of one task over a store whose transport can fail
NextPublish ==
    \/ Tick
    \/ \E t \in LogTasks : \E e \in LogEvents : Publish(t, e)
    \/ \E t \in LogTasks : PublishFails(t)
    \/ \E t \in LogTasks : \E e \in LogEvents : PublishReplyLost(t, e)
    \/ \E t \in LogTasks : GetAllEvents(t)

SpecPublish == Init /\ [][NextPublish]_vars

\* publisher and one subscribe() sequence of one task
NextSub ==
    \/ Tick
    \/ \E t \in LogTasks : Publish(t, MkEvent("task.message", t, "m", None))
    \/ \E t \in LogTasks : SubscribeStart("s1", t, "i1") /\ UNCHANGED strVars
    \/ SubReadEntries("s1") /\ UNCHANGED strVars
    \/ SubResume("s1") /\ UNCHANGED strVars
    \/ SubReadRejected("s1") /\ UNCHANGED strVars
    \/ SubReadFails("s1") /\ UNCHANGED strVars
    \/ SubBackoff("s1") /\ UNCHANGED strVars
    \/ SubExit("s1") /\ UNCHANGED strVars
    \/ SubCallerStops("s1") /\ UNCHANGED strVars
    \/ SubStop("i1") /\ UNCHANGED strVars

SpecSub == Init /\ [][NextSub]_vars

\* publisher and the two consumers of one group of one task
NextGroup ==
    \/ Publish(GroupTask, MkEvent("task.message", GroupTask, "m", None))
    \/ \E c \in Consumers : ConsumeStart(c)
    \/ \E c \in Consumers : ConRead(c)
    \/ \E c \in Consumers : ConReadEmpty(c)
    \/ \E c \in Consumers : ConResume(c)
    \/ \E c \in Consumers : ConAckFails(c)
    \/ \E c \in Consumers : ConReadFails(c)
    \/ \E c \in Consumers : ConBackoff(c)
    \/ \E c \in Consumers : ConExit(c)
    \/ \E c \in Consumers : ConCallerStops(c)
    \/ \E c \in Consumers : ConStop(c)

SpecGroup == Init /\ [][NextGroup]_vars

\* the task the lifecycle specification runs
RunTask == "t1"

\* one tasks/send run of a task and tasks/cancel requests for it
NextTask ==
    \/ \E via \in Vias : HandleTasksSend(RunTask, via)
    \/ ApiHandleTasksSend(RunTask)
    \/ OnEventPublish(RunTask)
    \/ OnEventPublishFails(RunTask)
    \/ OnEventApply(RunTask)
    \/ OnEventListWrite(RunTask)
    \/ SendReturn(RunTask)
    \/ CancelGet(RunTask)
    \/ CancelWrite(RunTask)
    \/ CancelReturn(RunTask)

SpecTask == Init /\ [][NextTask]_vars

\* one publisher and two subscribers of a task, each on its own instance
SubOf == [s \in Subs |-> IF s = "s1" THEN "i1" ELSE "i2"]

NextSubs ==
    \/ \E t \in LogTasks : Publish(t, MkEvent("task.message", t, "m", None))
    \/ \E s \in Subs, t \in LogTasks : SubscribeStart(s, t, SubOf[s]) /\ UNCHANGED strVars
    \/ \E s \in Subs : SubReadEntries(s) /\ UNCHANGED strVars
    \/ \E s \in Subs : SubResume(s) /\ UNCHANGED strVars
    \/ \E s \in Subs : SubReadRejected(s) /\ UNCHANGED strVars
    \/ \E s \in Subs : SubReadFails(s) /\ UNCHANGED strVars
    \/ \E s \in Subs : SubBackoff(s) /\ UNCHANGED strVars

SpecSubs == Init /\ [][NextSubs]_vars

\* publishers and bulk reads of two tasks, a subscriber of either and a
\* consumer of the group of the first
NextTasks ==
    \/ \E t \in TaskIds :
          /\ Len(appended[t]) < MaxTaskAppends
          /\ Publish(t, MkEvent("task.message", t, "m", None))
    \/ \E t \in TaskIds : SubscribeStart("s1", t, "i1") /\ UNCHANGED strVars
    \/ SubReadEntries("s1") /\ UNCHANGED strVars
    \/ SubResume("s1") /\ UNCHANGED strVars
    \/ SubReadRejected("s1") /\ UNCHANGED strVars
    \/ SubBackoff("s1") /\ UNCHANGED strVars
    \/ \E t \in TaskIds : GetAllEvents(t)
    \/ \E t \in TaskIds : GetEventsSince(t)
    \/ ConsumeStart("c1")
    \/ ConRead("c1")
    \/ ConResume("c1")

SpecTasks == Init /\ [][NextTasks]_vars

\* one tasks/send run of a task and tasks/get requests for it
NextGet ==
    \/ HandleTasksSend(RunTask, "handlers")
    \/ OnEventPublish(RunTask)
    \/ OnEventApply(RunTask)
    \/ OnEventListWrite(RunTask)
    \/ SendReturn(RunTask)
    \/ \E n \in HistoryLengths : TasksGetWithHistory(RunTask, TRUE, n)
    \/ TasksGetWithHistory(RunTask, FALSE, 0)

SpecGet == Init /\ [][NextGet]_vars

\* one publisher and two subscribe sequences of a task iterated on the same
\* RedisEventSubscriber instance; the caller of the first may stop iterating
NextShared ==
    \/ \E t \in LogTasks : Publish(t, MkEvent("task.message", t, "m", None))
    \/ \E s \in Subs, t \in LogTasks : SubscribeStart(s, t, "i1") /\ UNCHANGED strVars
    \/ \E s \in Subs : SubReadEntries(s) /\ UNCHANGED strVars
    \/ \E s \in Subs : SubResume(s) /\ UNCHANGED strVars
    \/ \E s \in Subs : SubReadRejected(s) /\ UNCHANGED strVars
    \/ \E s \in Subs : SubBackoff(s) /\ UNCHANGED strVars
    \/ \E s \in Subs : SubExit(s) /\ UNCHANGED strVars
    \/ SubCallerStops("s1") /\ UNCHANGED strVars

SpecShared == Init /\ [][NextShared]_vars

\* the consumers of a group and an operator inspecting its pending entries
NextPending ==
    \/ Publish(GroupTask, MkEvent("task.message", GroupTask, "m", None))
    \/ \E c \in Consumers : ConsumeStart(c)
    \/ \E c \in Consumers : ConRead(c)
    \/ \E c \in Consumers : ConResume(c)
    \/ \E c \in Consumers : ConAckFails(c)
    \/ \E c \in Consumers : ConBackoff(c)
    \/ \E c \in Consumers : ConCallerStops(c)
    \/ GetPendingEvents(GroupTask)
    \/ GetPendingEventsFails(GroupTask)

SpecPending == Init /\ [][NextPending]_vars

\* one consumer and the inspecting reads over a store whose transport can fail
NextErrors ==
    \/ Publish(GroupTask, MkEvent("task.message", GroupTask, "m", None))
    \/ ConsumeStart("c1")
    \/ ConRead("c1")
    \/ ConResume("c1")
    \/ GetPendingEvents(GroupTask)
    \/ GetPendingEventsFails(GroupTask)
    \/ GetAllEvents(GroupTask)
    \/ GetEventsSince(GroupTask)
    \/ RangeReadFails(GroupTask)

SpecErrors == Init /\ [][NextErrors]_vars

\* a publisher and another writer of one task's stream, with the four reads
NextMalformed ==
    \/ Publish(GroupTask, MkEvent("task.message", GroupTask, "m", None))
    \/ ForeignXAdd(GroupTask)
    \/ GetAllEvents(GroupTask)
    \/ GetEventsSince(GroupTask)
    \/ RangeDecodeFails(GroupTask)
    \/ SubscribeStart("s1", GroupTask, "i1") /\ UNCHANGED strVars
    \/ SubReadEntries("s1") /\ UNCHANGED strVars
    \/ SubResume("s1") /\ UNCHANGED strVars
    \/ SubDecodeFails("s1") /\ UNCHANGED strVars
    \/ SubReadRejected("s1") /\ UNCHANGED strVars
    \/ SubBackoff("s1") /\ UNCHANGED strVars
    \/ ConsumeStart("c1")
    \/ ConRead("c1")
    \/ ConResume("c1")
    \/ ConDecodeFails("c1")

SpecMalformed == Init /\ [][NextMalformed]_vars

\* requests that name a task, before and after tasks/send has created it
NextNotFound ==
    \/ HandleTasksSend(RunTask, "handlers")
    \/ OnEventPublish(RunTask)
    \/ OnEventApply(RunTask)
    \/ OnEventListWrite(RunTask)
    \/ \E t \in TaskIds : HandleTasksGet(t)
    \/ \E t \in TaskIds : HandleTasksResubscribe(t)
    \/ \E t \in TaskIds : CancelGet(t)
    \/ \E t \in TaskIds : CancelWrite(t)
    \/ \E t \in TaskIds : CancelReturn(t)
    \/ \E t \in TaskIds : StreamNotFound("s1", t)
    \/ \E t \in TaskIds : StreamConstructFails("s1", t)

SpecNotFound == Init /\ [][NextNotFound]_vars

\* one tasks/send run of a task, with the failures of a publish, the death of
\* the serving process and tasks/cancel requests
NextCrash ==
    \/ \E via \in Vias : HandleTasksSend(RunTask, via)
    \/ OnEventPublish(RunTask)
    \/ OnEventPublishFails(RunTask)
    \/ OnEventPublishReplyLost(RunTask)
    \/ OnEventApply(RunTask)
    \/ OnEventListWrite(RunTask)
    \/ SendReturn(RunTask)
    \/ SendCrash(RunTask)
    \/ CancelGet(RunTask)
    \/ CancelWrite(RunTask)
    \/ CancelReturn(RunTask)

SpecCrash == Init /\ [][NextCrash]_vars

\* conversations and the two send methods
NextConversations ==
    \/ \E ctx \in ContextIds : CreateConversation(ctx)
    \/ \E method \in SendMethods : \E ctx \in ContextIds :
          SendInContext(RunTask, method, ctx)
    \/ OnEventPublish(RunTask)
    \/ OnEventApply(RunTask)
    \/ OnEventListWrite(RunTask)
    \/ SendReturn(RunTask)

SpecConversations == Init /\ [][NextConversations]_vars

\* the steps of a consumer whose caller keeps iterating
ConStep(c) ==
    \/ ConsumeStart(c)
    \/ ConRead(c)
    \/ ConReadEmpty(c)
    \/ ConResume(c)
    \/ ConBackoff(c)
    \/ ConExit(c)

FairSpecGroup == SpecGroup /\ WF_vars(ConStep("c2"))

\* both consumers of the group are iterated for as long as they run
FairSpecConsumers ==
    SpecGroup /\ WF_vars(ConStep("c1")) /\ WF_vars(ConStep("c2"))

\* the events the producer of the streamed task appends
StreamEvents(t) ==
    {MkEvent("task.message", t, "m", None),
     MkEvent("task.completed", t, "Task completed successfully!", None)}

\* a task, a producer of its log and one SSE stream of it
NextStream ==
    \/ HandleTasksSend(RunTask, "handlers")
    \/ \E e \in StreamEvents(RunTask) : Publish(RunTask, e)
    \/ StreamNotFound("s1", RunTask)
    \/ StreamConstructFails("s1", RunTask)
    \/ StreamOpen("s1", RunTask, "i1")
    \/ StreamRead("s1")
    \/ StreamNext("s1")
    \/ StreamReadRejected("s1")
    \/ StreamReadFails("s1")
    \/ StreamBackoff("s1")
    \/ StreamClientGone("s1")

SpecStream == Init /\ [][NextStream]_vars

\* the steps of an open stream whose client keeps reading
StreamStep(s) ==
    \/ StreamRead(s)
    \/ StreamNext(s)
    \/ StreamReadRejected(s)
    \/ StreamBackoff(s)

FairSpecStream == SpecStream /\ WF_vars(StreamStep("s1"))

\* the subscriber's steps run whenever they can: the event loop resumes a
\* ready coroutine and the caller keeps asking for the next event
SubStep(s) ==
    /\ \/ SubReadEntries(s)
       \/ SubResume(s)
       \/ SubReadRejected(s)
       \/ SubBackoff(s)
       \/ SubExit(s)
    /\ UNCHANGED strVars

FairSpecSub == SpecSub /\ WF_vars(SubStep("s1"))

(***************************************************************************)
(* Claims                                                                  *)
(***************************************************************************)
StrictlyIncreasing(ids) ==
    \A i \in 1..(Len(ids) - 1) : IdLess(ids[i], ids[i + 1])

IsSuffix(a, b) ==
    /\ Len(a) <= Len(b)
    /\ a = SubSeq(b, Len(b) - Len(a) + 1, Len(b))

\* what had been appended to the task when the last bulk read was served
AppendedAtRead == SubSeq(appended[lastRange.task], 1, lastRange.n)

\* what was retained of it
RetainedAtRead == SubSeq(appended[lastRange.task], lastRange.evicted + 1, lastRange.n)

EventIds(events) == [i \in 1..Len(events) |-> events[i]["_id"]]

\* C1, as stated: after n publishes to a task and no trimming, get_all_events
\* returns exactly the n events in publish order, with strictly increasing _id.
C1_FullReplayAsStated ==
    (lastRange.op = "all" /\ lastRange.evicted = 0)
        => /\ lastRange.result = MapWithId(AppendedAtRead)
           /\ StrictlyIncreasing(EventIds(lastRange.result))

\* C1, amended: after n publishes to a task and no trimming, get_all_events
\* called with a limit of at least n returns exactly the n events in publish
\* order, with strictly increasing _id.
C1_FullReplayWithinLimit ==
    (lastRange.op = "all" /\ lastRange.evicted = 0 /\ lastRange.n <= lastRange.limit)
        => /\ lastRange.result = MapWithId(AppendedAtRead)
           /\ StrictlyIncreasing(EventIds(lastRange.result))

\* C1 witness: a full replay of three untrimmed events returned all three.
C1_Witness ==
    /\ lastRange.op = "all"
    /\ lastRange.evicted = 0
    /\ lastRange.n = 3
    /\ Len(lastRange.result) = 3

\* the newest maxlen entries appended before the last bulk read that lie
\* after its start position, as the read yields them
NewestAfterStart ==
    MapWithId(IF lastRange.after = NoId
              THEN SubSeq(AppendedAtRead, lastRange.n - MAXLEN + 1, lastRange.n)
              ELSE After(SubSeq(AppendedAtRead, lastRange.n - MAXLEN + 1, lastRange.n),
                         lastRange.after))

\* the evicted entries are the oldest ones: the stream is what was appended
\* without its first entries, and the newest maxlen entries are retained
OldestEvicted ==
    \A t \in TaskIds :
        /\ stream[t] = Drop(appended[t], Len(appended[t]) - Len(stream[t]))
        /\ Len(appended[t]) >= MAXLEN => Len(stream[t]) >= MAXLEN

\* C5, as stated: once more than maxlen entries were published, the unreadable
\* entries are exactly the oldest ones and the newest maxlen entries are all
\* returned, in order, by get_all_events / get_events_since.
C5_NewestReturnedAsStated ==
    /\ OldestEvicted
    /\ (lastRange.op # None /\ lastRange.n > MAXLEN)
          => IsSuffix(NewestAfterStart, lastRange.result)

\* C5, amended: once more than maxlen entries were published, the unreadable
\* entries are exactly the oldest ones, the newest maxlen entries are retained,
\* and a get_all_events / get_events_since whose limit is not smaller than the
\* number of retained entries after its start returns all of them in order.
C5_NewestReturnedWithinLimit ==
    /\ OldestEvicted
    /\ (/\ lastRange.op # None
        /\ lastRange.n > MAXLEN
        /\ Len(XRange(RetainedAtRead, lastRange.after, lastRange.n)) <= lastRange.limit)
          => /\ IsSuffix(NewestAfterStart, lastRange.result)
             /\ lastRange.result
                  = MapWithId(XRange(RetainedAtRead, lastRange.after, lastRange.n))

\* C5 witness: a full read after an eviction returned the newest maxlen entries.
C5_Witness ==
    /\ lastRange.op = "all"
    /\ lastRange.n > MAXLEN
    /\ lastRange.evicted > 0
    /\ Len(lastRange.result) = lastRange.n - lastRange.evicted
    /\ Len(lastRange.result) >= MAXLEN

\* C2: subscribe(task, last_event_id=P), P a position returned by publish,
\* yields the events appended after P: once an entry after P is retained, the
\* sequence yields the entry that follows P (unless its caller stops it).
C2_ResumeYieldsEventsAfterP ==
    (/\ subPc["s1"] \in {"loop", "backoff"}
     /\ subLast["s1"] # NoId
     /\ After(stream[subTask["s1"]], subLast["s1"]) # <<>>)
      ~> (\/ subPc["s1"] = "done"
          \/ (/\ yielded["s1"] # <<>>
              /\ IdLess(subLast["s1"], yielded["s1"][1]["_id"])))

\* the IDs a sequence yielded are consecutive entries of the task's log: none
\* skipped, none repeated
NoSkipNoRepeat(s) ==
    yielded[s] # <<>> =>
        \E j \in 1..Len(appended[subTask[s]]) :
            EventIds(yielded[s])
                = SubSeq(Ids(appended[subTask[s]]), j, j + Len(yielded[s]) - 1)

\* C4: a failed blocking read is retried with the unchanged cursor; the cursor
\* moves only past the event yielded last; the yielded sequence has no skipped
\* and no repeated event.
C4_RetryKeepsCursor ==
    [][\A s \in Subs :
          /\ (subPc[s] = "loop" /\ subPc'[s] = "backoff")
                => startId'[s] = startId[s]
          /\ (subPc[s] # "new" /\ startId'[s] # startId[s])
                => /\ yielded[s] # <<>>
                   /\ startId'[s] = ExclCursor(yielded[s][Len(yielded[s])]["_id"])
          /\ NoSkipNoRepeat(s)']_vars

\* C4 witness: the first read failed in transport, the retry with the same
\* cursor returned entries and the first of them is being yielded.
C4_Witness ==
    /\ subFailed["s1"]
    /\ failures > 0
    /\ subPc["s1"] = "yield"
    /\ Len(yielded["s1"]) = 1
    /\ ~startId["s1"].excl

\* C6: no log position is yielded to both consumers of a group.
C6_NoPositionToBoth ==
    \A c \in Consumers : \A d \in Consumers :
        c # d =>
            \A i \in 1..Len(conYielded[c]) : \A j \in 1..Len(conYielded[d]) :
                conYielded[c][i]["_id"] # conYielded[d][j]["_id"]

\* C6 witness: both consumers were yielded entries while one entry of the
\* other is still unacknowledged.
C6_Witness ==
    /\ conYielded["c1"] # <<>>
    /\ conYielded["c2"] # <<>>
    /\ \E p \in group[GroupTask].pending : p.consumer = "c1"
    /\ conPc["c2"] = "yield"

(***************************************************************************)
(* Task lifecycle claims                                                   *)
(***************************************************************************)
\* a step of on_event that ends the processing of the current event of t
EventProcessed(t) == processed'[t] # processed[t]

\* C3: once the stored state of a task is terminal, the processing of a
\* later event of the task does not change it.
C3_TerminalStateKept ==
    [][\A t \in TaskIds :
          (EventProcessed(t) /\ tasks[t].state \in TERMINAL_STATES)
              => tasks'[t].state = tasks[t].state]_vars

\* the step in which tasks/cancel finds the task in a terminal state
CancelOfTerminal(t) ==
    /\ canPc[t] = "idle"
    /\ cancels'[t] # cancels[t]
    /\ tasks[t].exists
    /\ tasks[t].state \in TERMINAL_STATES

\* C7: tasks/cancel on a task in a terminal state is answered with the
\* JSON-RPC error -32602 and leaves the task row as it was.
C7_CancelOfTerminalRejected ==
    [][\A t \in TaskIds :
          CancelOfTerminal(t)
              => /\ rpcResponse'[t].cancel.code = -32602
                 /\ tasks'[t] = tasks[t]]_vars

\* C7 witness: a cancel of a completed task was rejected, the task is still
\* completed with its history and artifacts.
C7_Witness ==
    /\ rpcResponse[RunTask].cancel.code = -32602
    /\ tasks[RunTask].state = "completed"
    /\ Len(tasks[RunTask].history) = 1 + NUM_CHUNKS
    /\ Len(tasks[RunTask].artifacts) = 1

\* C8: tasks/cancel writes canceled only over a non-terminal state.
C8_CancelWritesOverNonTerminal ==
    [][\A t \in TaskIds :
          (canPc[t] = "write" /\ canPc'[t] = "reget")
              => tasks[t].state \notin TERMINAL_STATES]_vars

\* C9: the processing of a terminal task.* event of a non-terminal task
\* stores the matching state and the event's message as status message.
C9_TerminalEventStored ==
    [][\A t \in TaskIds :
          (/\ EventProcessed(t)
           /\ curEvent[t].type \in {"task.completed", "task.failed",
                                    "task.canceled", "task.rejected"}
           /\ tasks[t].state \notin TERMINAL_STATES)
              => /\ tasks'[t].state = RemovePrefixTask(curEvent[t].type)
                 /\ tasks'[t].status_message = curEvent[t].message]_vars

\* C10: the processing of task.working of a submitted task stores the
\* state working.
C10_WorkingStored ==
    [][\A t \in TaskIds :
          (/\ EventProcessed(t)
           /\ curEvent[t].type = "task.working"
           /\ tasks[t].state = "submitted")
              => tasks'[t].state = "working"]_vars

\* the number of entries of seq equal to x
RECURSIVE CountOf(_, _)
CountOf(seq, x) ==
    IF seq = <<>> THEN 0
    ELSE (IF Head(seq) = x THEN 1 ELSE 0) + CountOf(Tail(seq), x)

\* C11: the processing of a task.message (task.artifact) event with a payload
\* appends that payload at the end of the history (artifact list) and leaves
\* the state and the other list as they were; the history holds the user
\* message and one message per task.message event processed.
C11_PayloadAppended ==
    /\ [][\A t \in TaskIds :
            (EventProcessed(t) /\ curEvent[t].type = "task.message"
                               /\ curEvent[t].message # None)
                => /\ tasks'[t].history = Append(tasks[t].history, curEvent[t].message)
                   /\ tasks'[t].artifacts = tasks[t].artifacts
                   /\ tasks'[t].state = tasks[t].state]_vars
    /\ [][\A t \in TaskIds :
            (EventProcessed(t) /\ curEvent[t].type = "task.artifact"
                               /\ curEvent[t].artifact # None)
                => /\ tasks'[t].artifacts = Append(tasks[t].artifacts, curEvent[t].artifact)
                   /\ tasks'[t].history = tasks[t].history
                   /\ tasks'[t].state = tasks[t].state]_vars
    /\ [](\A t \in TaskIds :
            tasks[t].exists
                => Len(tasks[t].history) = 1 + CountOf(processed[t], "task.message"))

\* C11 witness: two message events and the artifact event were processed,
\* with a cancel in between.
C11_Witness ==
    /\ tasks[RunTask].history = <<"user", "chunk1", "chunk2">>
    /\ tasks[RunTask].artifacts = <<"analysis_result">>
    /\ tasks[RunTask].state = "canceled"
    /\ CountOf(processed[RunTask], "task.message") = 2

(***************************************************************************)
(* SSE stream claims                                                       *)
(***************************************************************************)
\* the SSE events of a stream that carry a log position
LogEventsOf(out) == SelectSeq(out, LAMBDA e : e.id # NoId)

IsTerminalType(type) ==
    type \in {"task.completed", "task.failed", "task.canceled", "task.rejected"}

\* C12: a stream emits log events in log order and nothing after the first
\* terminal event it emits.
C12_StreamEndsAtTerminal ==
    \A s \in Subs :
        LET out == LogEventsOf(strOut[s]) IN
        /\ \A i \in 1..Len(out) : \A j \in 1..Len(out) :
               i < j => IdLess(out[i].id, out[j].id)
        /\ \A i \in 1..Len(strOut[s]) :
               IsTerminalType(strOut[s][i].event) => i = Len(strOut[s])

\* C12 witness: the stream has ended after a terminal event that is not the
\* last entry of the log.
C12_Witness ==
    /\ strPc["s1"] = "done"
    /\ Len(strOut["s1"]) >= 3
    /\ LET last == strOut["s1"][Len(strOut["s1"])] IN
          /\ IsTerminalType(last.event)
          /\ After(stream[RunTask], last.id) # <<>>

\* a terminal event is retained in the log of the task of stream s after the
\* position the stream has reached (its resumption token, or the last log
\* event it emitted)
TerminalAhead(s) ==
    subTask[s] # None /\
    LET out == LogEventsOf(strOut[s])
        pos == IF out # <<>> THEN out[Len(out)].id
               ELSE IF subLast[s] # NoId THEN subLast[s] ELSE NoId
        ahead == XRange(stream[subTask[s]], pos, Len(stream[subTask[s]])) IN
    \E n \in 1..Len(ahead) : IsTerminalType(JsonLoads(ahead[n].fields.data).type)

TerminalEmitted(s) ==
    /\ strOut[s] # <<>>
    /\ strOut[s][Len(strOut[s])].id # NoId
    /\ IsTerminalType(strOut[s][Len(strOut[s])].event)

\* C13: an open stream of a task whose log holds a terminal event ahead of
\* the stream eventually emits it and ends (unless the client leaves or the
\* event is evicted first).
C13_StreamReachesTerminal ==
    \A s \in {"s1"} :
        (strPc[s] = "open" /\ TerminalAhead(s))
            ~> \/ (TerminalEmitted(s) /\ strPc[s] = "done")
               \/ strPc[s] = "gone"
               \/ ~TerminalAhead(s)

(***************************************************************************)
(* Concurrent subscribers                                                  *)
(***************************************************************************)
\* the place of the event with position id in what s has observed (0: none)
PlaceOf(s, id) ==
    IF \E i \in 1..Len(yielded[s]) : yielded[s][i]["_id"] = id
    THEN CHOOSE i \in 1..Len(yielded[s]) : yielded[s][i]["_id"] = id
    ELSE 0

\* C14: while a publisher appends, every subscriber observes events in the
\* append order: what it has observed is a run of consecutive appended
\* events with increasing positions, and two subscribers never observe two
\* events in opposite orders.
C14_AppendOrderObserved ==
    /\ \A s \in Subs :
          /\ StrictlyIncreasing(EventIds(yielded[s]))
          /\ NoSkipNoRepeat(s)
    /\ \A s \in Subs : \A r \in Subs :
          \A i \in 1..Len(yielded[s]) : \A j \in 1..Len(yielded[s]) :
             LET a == PlaceOf(r, yielded[s][i]["_id"])
                 b == PlaceOf(r, yielded[s][j]["_id"]) IN
             (i < j /\ a > 0 /\ b > 0) => a < b

\* C14 witness: two subscribers that started at different times have both
\* observed the same two events, and the publisher appended in between.
C14_Witness ==
    /\ Len(yielded["s1"]) = 2
    /\ Len(yielded["s2"]) = 2
    /\ yielded["s1"][2]["_id"] = yielded["s2"][1]["_id"]
    /\ Len(appended["t1"]) >= 3

(***************************************************************************)
(* Consumer group claims                                                   *)
(***************************************************************************)
YieldedTo(c, id) == \E i \in 1..Len(conYielded[c]) : conYielded[c][i]["_id"] = id

\* an entry is pending for c1, whose caller has stopped iterating
AbandonedByC1(id) ==
    /\ conPc["c1"] = "done"
    /\ [id |-> id, consumer |-> "c1"] \in group[GroupTask].pending

\* the position of the n-th entry appended to the group's task (NoId: none)
AppendedId(n) ==
    IF n <= Len(appended[GroupTask]) THEN appended[GroupTask][n].id ELSE NoId

\* C15: an entry delivered to a consumer that stopped without acknowledging
\* it is eventually delivered to the other consumer, which keeps consuming.
C15_AbandonedEntryRedelivered ==
    \A n \in 1..MaxAppends :
        AbandonedByC1(AppendedId(n))
            ~> (\/ YieldedTo("c2", AppendedId(n))
                \/ conPc["c2"] = "done")

Listed(result, p) ==
    \E i \in 1..Len(result) :
        result[i].message_id = p.id /\ result[i].consumer = p.consumer

\* C16: every entry delivered and not acknowledged is listed by
\* get_pending_events under its consumer; an acknowledgment removes the
\* acknowledged entry and no other.
C16_PendingListed ==
    /\ [](lastPending.op # None =>
             \A p \in lastPending.held : Listed(lastPending.result, p))
    /\ [][LET removed == group[GroupTask].pending \ group'[GroupTask].pending IN
             /\ Cardinality(removed) <= 1
             /\ \A p \in removed :
                   /\ conPc[p.consumer] = "yield"
                   /\ p.id = Head(conBatch[p.consumer]).id]_vars

\* the n-th entry appended to the group's task is in its log
Retained(n) ==
    \E i \in 1..Len(stream[GroupTask]) : stream[GroupTask][i].id = AppendedId(n)

\* the positions yielded to the consumers of the group, in one sequence
GroupYielded == conYielded["c1"] \o conYielded["c2"]

\* C17: the consumers of a group that keep consuming receive every retained
\* entry of the log, those appended before the group was created included,
\* and no entry twice.
C17_GroupReceivesEveryEntry ==
    /\ \A n \in 1..MaxAppends :
          Retained(n)
              ~> (\/ \E c \in Consumers : YieldedTo(c, AppendedId(n))
                  \/ ~Retained(n)
                  \/ \E c \in Consumers : conPc[c] = "done")
    /\ [](\A i \in 1..Len(GroupYielded) : \A j \in 1..Len(GroupYielded) :
             i # j => GroupYielded[i]["_id"] # GroupYielded[j]["_id"])

\* C18: a malformed entry is skipped: no read raises because of it, and a
\* bulk read returns every well-formed entry of its range.
C18_MalformedEntrySkipped ==
    /\ subPc["s1"] # "raised"
    /\ conPc["c1"] # "raised"
    /\ lastRange.op # None =>
          /\ lastRange.error = None
          /\ Len(lastRange.result)
                = Len(SelectSeq(XRange(RetainedAtRead, lastRange.after, lastRange.limit),
                                Decodes))

\* an entry of a task's stream is a whole event of the publisher
WholeEntry(entry) ==
    /\ DOMAIN entry.fields = {"data"}
    /\ Decodes(entry)
    /\ JsonLoads(entry.fields.data) \in LogEvents

\* a step in which the transport fails under publish
PublishFailure == failures' = failures + 1

\* C19: a publish whose transport fails raises, has made one append attempt
\* (the log gained at most one entry) and leaves no partial entry in the log.
C19_PublishFailsOnce ==
    [][PublishFailure =>
          \A t \in LogTasks :
              /\ pubResult'.raised
              /\ Len(appended'[t]) <= Len(appended[t]) + 1
              /\ SubSeq(appended'[t], 1, Len(appended[t])) = appended[t]
              /\ \A i \in 1..Len(appended'[t]) : WholeEntry(appended'[t][i])
              /\ \A i \in 1..Len(stream'[t]) : WholeEntry(stream'[t][i])]_vars

\* C19 witness: a publish has raised after earlier entries were appended.
C19_Witness ==
    /\ pubResult.raised
    /\ failures = 1
    /\ Len(appended["t1"]) >= 2

\* C20: a read during which the transport failed reports the failure to its
\* caller: get_events_since and get_all_events raise, and so does
\* get_pending_events.
C20_TransportErrorReported ==
    /\ (lastRange.op # None /\ lastRange.failed) => lastRange.error = "RedisError"
    /\ (lastPending.op # None /\ lastPending.failed) => lastPending.raised

\* the position was evicted from the log when the bulk read was served
EvictedAtRead(id) ==
    \E i \in 1..lastRange.evicted : appended[lastRange.task][i].id = id

\* C21: get_events_since from a position that trimming has evicted is
\* answered with an error, it is not served.
C21_EvictedResumeRejected ==
    (lastRange.op = "since" /\ EvictedAtRead(lastRange.after))
        => lastRange.error # None

\* one row of the transition table: the effect of an observed event on a task
TableStep(row, event) ==
    CASE event.type = "task.working" -> [row EXCEPT !.state = "working"]
      [] event.type = "task.message" ->
            [row EXCEPT !.history = Append(@, event.message)]
      [] event.type = "task.artifact" ->
            [row EXCEPT !.artifacts = Append(@, event.artifact)]
      [] event.type \in {"task.completed", "task.failed", "task.canceled",
                         "task.rejected"} ->
            [row EXCEPT !.state = RemovePrefixTask(event.type),
                        !.status_message = event.message]
      [] OTHER -> row

RECURSIVE FoldTable(_, _)
FoldTable(row, events) ==
    IF events = <<>> THEN row
    ELSE FoldTable(TableStep(row, Head(events)), Tail(events))

\* the task rebuilt from the log alone, read with a limit the run stays under
Rebuilt(t) ==
    FoldTable(create("user"), get_all_events(stream[t], Len(FakeAgentEvents)))

\* every event emitted for t is processed, no request is in progress, no
\* operation failed and nothing was trimmed
Quiescent(t) ==
    /\ sendPc[t] \in {"agent", "done"}
    /\ canPc[t] = "idle"
    /\ failures = 0
    /\ Len(stream[t]) = Len(appended[t])

\* C22: in a quiescent state the stored task (state, history, artifacts) is
\* the fold of the transition table over get_all_events.
C22_LogRebuildsTask ==
    Quiescent(RunTask) =>
        /\ tasks[RunTask].state = Rebuilt(RunTask).state
        /\ tasks[RunTask].history = Rebuilt(RunTask).history
        /\ tasks[RunTask].artifacts = Rebuilt(RunTask).artifacts

\* the n-th entry appended to the log of t1 is retained and stands after the
\* position subscriber s1 was started from
AheadOfS1(n) ==
    /\ subPc["s1"] \notin {"new", "done"}
    /\ n <= Len(appended["t1"])
    /\ \E i \in 1..Len(stream["t1"]) : stream["t1"][i].id = appended["t1"][n].id
    /\ subLast["s1"] # NoId => IdLess(subLast["s1"], appended["t1"][n].id)

YieldedToS1(n) ==
    /\ n <= Len(appended["t1"])
    /\ \E i \in 1..Len(yielded["s1"]) : yielded["s1"][i]["_id"] = appended["t1"][n].id

\* C23: a transport failure of the blocking read sends the loop to its
\* backoff, never to its end, and every entry retained after the cursor is
\* eventually yielded (unless it is evicted or the sequence is stopped).
C23_FailedReadRetried ==
    /\ [][\A s \in Subs :
             (subPc[s] = "loop" /\ failures' = failures + 1)
                 => subPc'[s] = "backoff"]_vars
    /\ \A n \in 1..MaxAppends :
          AheadOfS1(n) ~> (YieldedToS1(n) \/ ~AheadOfS1(n))

\* stop() was called on the instance of sequence s, which is being iterated
StoppedWhileIterated(s) ==
    /\ subPc[s] \in {"loop", "yield", "backoff"}
    /\ ~running[subInst[s]]

C25_EnsureExistingGroupNoOp ==
    /\ [][\A c \in Consumers :
             (/\ conPc[c] = "new"
              /\ conPc'[c] = "read"
              /\ group[GroupTask].created)
                 => group'[GroupTask] = group[GroupTask]]_vars
    /\ [](\A i \in 1..Len(GroupYielded) : \A j \in 1..Len(GroupYielded) :
             i # j => GroupYielded[i]["_id"] # GroupYielded[j]["_id"])

\* C25 witness: the second consumer started after the first had been
\* delivered entries, one of them still pending, and was then yielded an entry.
C25_Witness ==
    /\ conYielded["c1"] # <<>>
    /\ conYielded["c2"] # <<>>
    /\ IdLess(conYielded["c1"][1]["_id"], conYielded["c2"][1]["_id"])
    /\ \E p \in group[GroupTask].pending : p.consumer = "c1"
    /\ IdLess(ZeroId, group[GroupTask].lastDelivered)

\* the entries retained at the last bulk read that stand strictly after its
\* start position, oldest first
CandidatesAtRead ==
    SelectSeq(RetainedAtRead,
              LAMBDA e : lastRange.after = NoId \/ IdLess(lastRange.after, e.id))

\* C26: get_events_since(task, P, limit) returns the first `limit` retained
\* events strictly after P in log order, P excluded, and get_all_events(task,
\* limit) the first `limit` retained events from the start of the log.
C26_RangeReadReturnsFirstLimit ==
    (lastRange.op # None /\ lastRange.error = None)
        => /\ lastRange.result
                = MapWithId(SubSeq(CandidatesAtRead, 1,
                                   Min(lastRange.limit, Len(CandidatesAtRead))))
           /\ StrictlyIncreasing(EventIds(lastRange.result))
           /\ \A i \in 1..Len(lastRange.result) :
                 lastRange.result[i]["_id"] # lastRange.after
           /\ lastRange.op = "all" => lastRange.after = NoId

\* C26 witness: a get_events_since from a retained position returned `limit`
\* events.
C26_Witness ==
    /\ lastRange.op = "since"
    /\ \E i \in 1..Len(RetainedAtRead) : RetainedAtRead[i].id = lastRange.after
    /\ Len(lastRange.result) = lastRange.limit

\* C27: every entry appended to the log of the task by its tasks/send run
\* carries the task's ID, although the executor emitted it with another one.
C27_AppendedEventsCarryTaskId ==
    \A t \in TaskIds :
        \A i \in 1..Len(appended[t]) :
            /\ JsonLoads(appended[t][i].fields.data).taskId = t
            /\ FakeAgentEvents[i].taskId # t
            /\ JsonLoads(appended[t][i].fields.data).type = FakeAgentEvents[i].type

\* C27 witness: the run has published its events up to the artifact.
C27_Witness ==
    /\ Len(appended[RunTask]) >= 3 + NUM_CHUNKS + 1
    /\ JsonLoads(appended[RunTask][3 + NUM_CHUNKS + 1].fields.data).type = "task.artifact"

\* the event on_event is processing is in the log of its task
InLog(t, event) ==
    \E i \in 1..Len(appended[t]) : JsonLoads(appended[t][i].fields.data) = event

\* C28: the processing of an event whose type is none of the task.* types
\* ends with the event in the log and the stored task as it was.
C28_OtherEventLeavesTask ==
    [][\A t \in TaskIds :
          (processed'[t] # processed[t] /\ curEvent[t].type \notin TaskEventTypes)
              => /\ tasks'[t] = tasks[t]
                 /\ InLog(t, curEvent[t])
                 /\ processed'[t] = Append(processed[t], curEvent[t].type)]_vars

\* C28 witness: the tool-call and its result were published and processed
\* and the task is as it was created.
C28_Witness ==
    /\ Len(processed[RunTask]) >= 3
    /\ processed[RunTask][2] = "tool-call"
    /\ processed[RunTask][3] = "tool-call-result"
    /\ Len(appended[RunTask]) >= 3
    /\ tasks[RunTask] = create("user")

\* the answers of the requests that only read or cancel task t
AnswersOf(t) ==
    <<rpcResponse[t].get, rpcResponse[t].cancel, rpcResponse[t].resubscribe>>

\* C29: tasks/get, tasks/cancel and tasks/resubscribe for a task that does
\* not exist answer -32601 and change no stored task; the stream of such a
\* task emits one TASK_NOT_FOUND error event and ends without a read.
C29_MissingTaskNotFound ==
    [][/\ \A t \in TaskIds :
             (~tasks[t].exists /\ AnswersOf(t)' # AnswersOf(t))
                 => /\ \A k \in 1..3 :
                          AnswersOf(t)'[k] # AnswersOf(t)[k]
                              => AnswersOf(t)'[k].code = -32601
                    /\ tasks' = tasks
       /\ \A s \in Subs :
             (/\ strPc[s] = "none"
              /\ strPc'[s] # "none"
              /\ \A t \in TaskIds : ~tasks[t].exists)
                 => /\ strPc'[s] = "done"
                    /\ Len(strOut'[s]) = 1
                    /\ strOut'[s][1].event = "error"
                    /\ JsonLoads(strOut'[s][1].data).code = "TASK_NOT_FOUND"
                    /\ subPc'[s] = "new"
                    /\ lastRange' = lastRange
                    /\ tasks' = tasks]_vars

\* C29 witness: the three requests were answered for a task that does not
\* exist and the stream of a missing task has ended.
C29_Witness ==
    /\ ~tasks["t2"].exists
    /\ rpcResponse["t2"].get.code = -32601
    /\ rpcResponse["t2"].cancel.code = -32601
    /\ rpcResponse["t2"].resubscribe.code = -32601
    /\ strPc["s1"] = "done"
    /\ ~tasks[RunTask].exists

\* the types of the events the executor of t has emitted to on_event and
\* on_event has published, in order
EmittedTypes(t) ==
    [i \in 1..Len(appended[t]) |-> JsonLoads(appended[t][i].fields.data).type]

\* the first index of a type in a sequence of types (0: absent)
IndexOf(types, type) ==
    IF \E i \in 1..Len(types) : types[i] = type
    THEN CHOOSE i \in 1..Len(types) :
             types[i] = type /\ \A j \in 1..(i - 1) : types[j] # type
    ELSE 0

\* the execution of the executor of t has ended
ExecutionEnded(t) ==
    /\ sendVia[t] \in Vias
    /\ sendPc[t] \in {"done", "raised"}

EmittedInOrder(types) ==
    /\ types # <<>> => types[1] = "task.working"
    /\ CountOf(types, "task.working") <= 1
    /\ CountOf(types, "task.completed") <= 1
    /\ CountOf(types, "task.completed") = 1 => types[Len(types)] = "task.completed"
    /\ CountOf(types, "task.message") <= NUM_CHUNKS
    /\ IndexOf(types, "tool-call-result") > 0
          => /\ IndexOf(types, "tool-call") > 0
             /\ IndexOf(types, "tool-call") < IndexOf(types, "tool-call-result")
    /\ \A i \in 1..Len(types) :
          types[i] = "task.message"
              => IndexOf(types, "task.artifact") \in {0} \cup ((i + 1)..Len(types))

C31_StreamingFlagFollowsMethod ==
    (/\ sendPc[RunTask] = "done"
     /\ sendContext[RunTask] \in ContextIds
     /\ get_detail(sendContext[RunTask]).found)
        => get_detail(sendContext[RunTask]).is_streaming
              = (sendMethod[RunTask] = "tasks/sendSubscribe")

\* tasks/cancel of t has returned the canceled task
CancelSucceeded(t) ==
    /\ rpcResponse[t].cancel.code = 0
    /\ rpcResponse[t].cancel.state = "canceled"

\* C32: once a tasks/cancel has succeeded, the task's log holds a
\* task.canceled event, the last event of a replay of the log.
C32_CancelAppendsCanceledEvent ==
    \A t \in TaskIds :
        CancelSucceeded(t) =>
            \E i \in 1..Len(appended[t]) :
                JsonLoads(appended[t][i].fields.data).type = "task.canceled"

\* the events appended to the log of t, decoded
Logged(t) == [i \in 1..Len(appended[t]) |-> JsonLoads(appended[t][i].fields.data)]

IsMessageEvent(event) == event.type = "task.message" /\ event.message # None
IsArtifactEvent(event) == event.type = "task.artifact" /\ event.artifact # None
IsTerminalLogged(event) == _get_terminal_state(event.type) # None

\* the payloads the log of t holds for each part of the stored task
LoggedMessages(t) ==
    LET evs == SelectSeq(Logged(t), IsMessageEvent) IN
    [i \in 1..Len(evs) |-> evs[i].message]
LoggedArtifacts(t) ==
    LET evs == SelectSeq(Logged(t), IsArtifactEvent) IN
    [i \in 1..Len(evs) |-> evs[i].artifact]
LoggedTerminals(t) ==
    LET evs == SelectSeq(Logged(t), IsTerminalLogged) IN
    [i \in 1..Len(evs) |-> _get_terminal_state(evs[i].type)]

IsPrefix(a, b) == Len(a) <= Len(b) /\ SubSeq(b, 1, Len(a)) = a

\* the number of logged events whose effect the stored task does not hold
StoreLag(t) ==
    (Len(LoggedMessages(t)) - Len(Tail(tasks[t].history)))
    + (Len(LoggedArtifacts(t)) - Len(tasks[t].artifacts))
    + (IF tasks[t].state \in TERMINAL_STATES THEN 0 ELSE Len(LoggedTerminals(t)))

CancelWrites(t) == canPc[t] = "write" /\ canPc'[t] = "reget"

\* C34: the step in which the publish of an event of a tasks/send run raises
\* a transport error, and every later step of that run, leave the stored
\* task (state, status message, history, artifacts) as it was.
C34_FailedPublishLeavesTask ==
    [][\A t \in TaskIds :
          (sendPc'[t] = "raised" /\ ~CancelWrites(t)) => tasks'[t] = tasks[t]]_vars

\* C34 witness: the publish of the second task.message event raised, the
\* stored history holding the first message and not the second.
C34_Witness ==
    /\ sendPc[RunTask] = "raised"
    /\ pubResult.raised
    /\ processed[RunTask] = <<"task.working", "tool-call", "tool-call-result",
                              "task.message">>
    /\ Len(tasks[RunTask].history) = 2

\* C35: while the caller of consume keeps iterating, an entry delivered to
\* its consumer (pending for it) and not yielded to it is still in the batch
\* being iterated; between two batches every entry pending for the consumer
\* has been yielded to it.
C35_DeliveredEntryYielded ==
    \A c \in Consumers :
        (conPc[c] \in {"read", "backoff"} /\ conBatch[c] = <<>>)
            => \A p \in group[GroupTask].pending :
                   p.consumer = c => YieldedTo(c, p.id)

\* C36: an entry leaves the pending entries only in the step in which the
\* caller of consume, to which the entry was yielded last, asks for the next
\* event; the entry at which a caller stops iterating stays pending.
C36_AckAfterYieldAndResume ==
    /\ [][\A p \in group[GroupTask].pending \ group'[GroupTask].pending :
             /\ YieldedTo(p.consumer, p.id)
             /\ conPc[p.consumer] = "yield"
             /\ conYielded[p.consumer][Len(conYielded[p.consumer])]["_id"] = p.id
             /\ conPc'[p.consumer] \in {"yield", "read"}]_vars
    /\ [][\A c \in Consumers :
             (conPc[c] = "yield" /\ conPc'[c] = "done")
                 => [id |-> Head(conBatch[c]).id, consumer |-> c]
                       \in group'[GroupTask].pending]_vars

\* C36 witness: the caller of c1 took two events and stopped at the second;
\* the first is acknowledged, the second is pending for c1.
C36_Witness ==
    /\ conPc["c1"] = "done"
    /\ Len(conYielded["c1"]) = 2
    /\ group[GroupTask].pending
          = {[id |-> conYielded["c1"][2]["_id"], consumer |-> "c1"]}

\* C37: of two subscribe sequences iterated on one subscriber instance, the
\* second, whose caller keeps iterating and on which stop() is never called,
\* does not end when the caller of the first stops iterating.
C37_SharedInstanceSequencesIndependent ==
    subPc["s2"] # "done"

\* the run of t writes the list it read, with the payload appended
ListWrites(t) == sendPc[t] = "write" /\ sendPc'[t] = "agent"

\* C38: with tasks/cancel requests interleaved with the processing of the
\* task.message and task.artifact events of a run, the write of a list
\* appends the payload to the stored list and leaves the status and the other
\* list as stored, the write of the canceled status leaves both lists as
\* stored, and every message and artifact processed is in the stored task.
C38_StatusAndListsDisjoint ==
    /\ [][\A t \in TaskIds :
             ListWrites(t) =>
                 /\ tasks'[t].state = tasks[t].state
                 /\ tasks'[t].status_message = tasks[t].status_message
                 /\ IF curEvent[t].type = "task.message"
                    THEN /\ tasks'[t].history
                               = Append(tasks[t].history, curEvent[t].message)
                         /\ tasks'[t].artifacts = tasks[t].artifacts
                    ELSE /\ tasks'[t].artifacts
                               = Append(tasks[t].artifacts, curEvent[t].artifact)
                         /\ tasks'[t].history = tasks[t].history]_vars
    /\ [][\A t \in TaskIds :
             CancelWrites(t) =>
                 /\ tasks'[t].state = "canceled"
                 /\ tasks'[t].history = tasks[t].history
                 /\ tasks'[t].artifacts = tasks[t].artifacts]_vars
    /\ [](\A t \in TaskIds :
             tasks[t].exists =>
                 /\ Len(tasks[t].history) = 1 + CountOf(processed[t], "task.message")
                 /\ Len(tasks[t].artifacts) = CountOf(processed[t], "task.artifact"))

\* C38 witness: a tasks/cancel wrote the canceled status while the run was
\* between the read and the write of the history, and the write followed:
\* the stored task is canceled and holds the message.
C38_Witness ==
    /\ tasks[RunTask].state = "canceled"
    /\ canPc[RunTask] = "reget"
    /\ sendPc[RunTask] = "agent"
    /\ curEvent[RunTask].type = "task.message"
    /\ processed[RunTask][Len(processed[RunTask])] = "task.message"
    /\ tasks[RunTask].history = <<"user", curEvent[RunTask].message>>

\* every event of a sequence of events was published to task t
AllOfTask(events, t) == \A i \in 1..Len(events) : events[i].taskId = t

\* C39: a publish to a task changes the log (its entries, its last position,
\* every entry ever appended) and the group of no other task, and a
\* subscriber, a bulk read and a consumer of the group of a task yield only
\* events published to that task.
C39_TasksIsolated ==
    /\ [][\A u \in TaskIds :
             (\/ stream'[u] # stream[u]
              \/ lastId'[u] # lastId[u]
              \/ appended'[u] # appended[u])
                 => /\ pubResult'.task = u
                    /\ pubResult' # pubResult
                    /\ group' = group]_vars
    /\ [](\A s \in Subs : AllOfTask(yielded[s], subTask[s]))
    /\ [](lastRange.op # None => AllOfTask(lastRange.result, lastRange.task))
    /\ [](\A c \in Consumers : AllOfTask(conYielded[c], GroupTask))

\* C39 witness: both tasks were published to; a subscriber and a bulk read
\* of the second and a consumer of the group of the first have each yielded
\* an event.
C39_Witness ==
    /\ appended["t1"] # <<>>
    /\ appended["t2"] # <<>>
    /\ subTask["s1"] = "t2" /\ yielded["s1"] # <<>>
    /\ lastRange.op # None /\ lastRange.task = "t2" /\ lastRange.result # <<>>
    /\ conYielded["c1"] # <<>>

\* the last min(n, Len(seq)) elements of a sequence, in order
LastN(seq, n) == SubSeq(seq, Len(seq) - Min(n, Len(seq)) + 1, Len(seq))

\* C40: a tasks/get with historyLength = n >= 0 has returned the last
\* min(n, length) messages of the stored history, in order, and no tasks/get
\* changes the stored task.
C40_GetReturnsLastMessages ==
    /\ [](\A t \in TaskIds :
             (getResult[t].asked /\ getResult[t].given)
                 => getResult[t].history
                       = LastN(getResult[t].stored, getResult[t].historyLength))
    /\ [][\A t \in TaskIds : getResult'[t] # getResult[t] => tasks' = tasks]_vars

====
